---- MODULE Spec2Model ----
(***************************************************************************)
(* Voxel-cloud proto-identity store of Genesis (src/src/memory):           *)
(* VoxelCloud.add, add_or_strengthen_proto, the query operations, the      *)
(* cross-modal linker and the snapshot save/load.                          *)
(*                                                                         *)
(* Numbers.  A fingerprint is a vector of two rationals with one common    *)
(* denominator, [v |-> numerators, d |-> denominator], kept in lowest      *)
(* terms.  A similarity is the value  f(c * (1 - delta))  where            *)
(* c = dot / sqrt(nn) is the exact cosine, delta > 0 is the relative       *)
(* shrink caused by the 1e-8 guards in the denominator (infinitesimal      *)
(* against the model's small rationals, absent when the dot product is 0)  *)
(* and f is the identity or the [0,1] remap (x+1)/2.  Comparisons are      *)
(* exact: squares are cross-multiplied, and a tie of the exact cosines is  *)
(* decided by delta.                                                       *)
(***************************************************************************)
EXTENDS Integers, Sequences, FiniteSets, TLC

\* ------------------------------------------------------------------ bounds
MaxCalls == 3        \* add / add_or_strengthen_proto calls in one behaviour
MaxSaves == 1        \* snapshots written in one behaviour
MaxQueryResults == 2 \* largest max_results a query is called with
MaxStoreCalls == 2   \* add calls in a behaviour that also queries, links, saves and loads
MaxTrackingCalls == 3 \* add calls in a behaviour that also tracks, links and queries
MaxLockUses == 2      \* uses of LogStore._interprocess_lock in one behaviour

\* --------------------------------------------------------------- constants
width == 512
height == 512
depth == 128
GridCells == 10
FreqBinHundredths == 5
DefaultSpatialTolerance == 100
AdaptiveStepHundredths == 15
AdaptiveMinTolerance == 50
AdaptiveMaxTolerance == 400
DefaultBucketSize == 1

NoCoords == <<>>
NoMatch == 0 - 1

\* ------------------------------------------------------------- arithmetic
Abs(x) == IF x < 0 THEN 0 - x ELSE x

Sgn(x) == IF x < 0 THEN 0 - 1 ELSE IF x > 0 THEN 1 ELSE 0

Cmp3(x, y) == IF x < y THEN 0 - 1 ELSE IF x > y THEN 1 ELSE 0

RECURSIVE Gcd(_, _)
Gcd(a, b) == IF b = 0 THEN a ELSE Gcd(b, a % b)

Dot(a, b) == a[1] * b[1] + a[2] * b[2]

\* lowest terms of the vector n / d  (d > 0)
Normalize(n, d) ==
    LET g == Gcd(Gcd(Abs(n[1]), Abs(n[2])), d)
    IN  [v |-> <<n[1] \div g, n[2] \div g>>, d |-> d \div g]

Fp(vec) == [v |-> vec, d |-> 1]

\* compares L / sqrt(M) with R / sqrt(N) for M, N > 0: -1, 0 or 1
SqCmp(L, M, R, N) ==
    IF Sgn(L) # Sgn(R) THEN Cmp3(Sgn(L), Sgn(R))
    ELSE IF L >= 0 THEN Cmp3(L * L * N, R * R * M)
    ELSE Cmp3(R * R * M, L * L * N)

\* a float constant p / q (q > 0) as a similarity value
SimConst(p, q) ==
    [const |-> TRUE, p |-> p, q |-> q, dot |-> 0, nn |-> 1, bn |-> 0, bd |-> 1,
     mapped |-> FALSE]

\* dot / ((|a| + eps) * (|b| + eps)), eps = 1e-8; b is the stored fingerprint
GuardedCosine(a, b, mapped) ==
    LET nn == Dot(a.v, a.v) * Dot(b.v, b.v)
    IN  [const |-> FALSE, p |-> 0, q |-> 1,
         dot |-> IF nn = 0 THEN 0 ELSE Dot(a.v, b.v),
         nn |-> IF nn = 0 THEN 1 ELSE nn,
         bn |-> Dot(b.v, b.v), bd |-> b.d * b.d,
         mapped |-> mapped]

\* computed similarity s against the float constant t = <<p, q>>
SimCmpConst(s, t) ==
    LET u == IF s.mapped THEN <<2 * t[1] - t[2], t[2]>> ELSE t
        exact == SqCmp(s.dot, s.nn, u[1], u[2] * u[2])
    IN  IF exact # 0 THEN exact ELSE 0 - Sgn(s.dot)

\* two computed similarities of one query against two stored fingerprints
SimCmpSim(s1, s2) ==
    LET exact == SqCmp(s1.dot, s1.nn, s2.dot, s2.nn)
    IN  IF exact # 0 THEN exact
        ELSE Sgn(s1.dot) * Cmp3(s1.bn * s2.bd, s2.bn * s1.bd)

SimCmp(s1, s2) ==
    IF s1.const /\ s2.const THEN Cmp3(s1.p * s2.q, s2.p * s1.q)
    ELSE IF s2.const THEN SimCmpConst(s1, <<s2.p, s2.q>>)
    ELSE IF s1.const THEN 0 - SimCmpConst(s2, <<s1.p, s1.q>>)
    ELSE SimCmpSim(s1, s2)

\* ------------------------------------------------------------ input sets
Octaves == {0, 1}

\* spectra, known to the store only through the collaborators below
Spectra == {1, 2}

\* (flattened fingerprint, spectrum, octave, modality) units offered to the store
Observations ==
    { [proto |-> <<1, 0>>, spectrum |-> 1, octave |-> 0, modality |-> "text"],
      [proto |-> <<1, 1>>, spectrum |-> 1, octave |-> 0, modality |-> "text"],
      [proto |-> <<2, 1>>, spectrum |-> 1, octave |-> 0, modality |-> "text"],
      [proto |-> <<1, 0>>, spectrum |-> 1, octave |-> 1, modality |-> "text"],
      [proto |-> <<0, 0>>, spectrum |-> 1, octave |-> 0, modality |-> "text"],
      [proto |-> <<1, 0>>, spectrum |-> 2, octave |-> 0, modality |-> "image"] }

\* similarity_threshold values of add_or_strengthen_proto (0.90 the default)
SimilarityThresholds == {<<9, 10>>, <<1, 2>>}

\* cosine_threshold values of collapse_config (0.85 the default)
CosineThresholds == {<<85, 100>>, <<0, 1>>}

\* wavecube_coords arguments: absent, or (x, y, z, w)
CoordArgs == {NoCoords, <<0, 0, 0, 0>>, <<9, 9, 9, 0>>}

\* ------------------------------------------- collaborators of the store
\* f0 of a spectrum, in hundredths
extract_fundamental(s) == IF s = 1 THEN 0 ELSE 7

\* harmonic coefficient of a spectrum, in hundredths
extract_harmonics(s, fundamental) == IF s = 1 THEN 0 ELSE 30

compute_frequency_position(s) == IF s = 1 THEN <<0, 0, 0>> ELSE <<256, 100, 64>>

\* level 0 of the pyramid is the fingerprint itself; the halved levels are
\* functions of it
generate_mip_levels(proto) == <<Fp(proto)>>

assign_band(s) == IF s = 1 THEN 0 ELSE 1

\* NoCoords stands for the call raising
extract_triplanar_coordinates(s, modality, octave) ==
    IF s = 1 THEN NoCoords ELSE <<1, 2, 3, 0>>

\* squared 3D Euclidean distance of two coordinates
compute_spatial_distance(c1, c2) ==
    (c1[1] - c2[1]) * (c1[1] - c2[1]) + (c1[2] - c2[2]) * (c1[2] - c2[2])
        + (c1[3] - c2[3]) * (c1[3] - c2[3])

\* ------------------------------------------------------------------ state
VARIABLES
    entries,          \* VoxelCloud.entries
    spatial_index,    \* VoxelCloud.spatial_index: grid cell -> offsets
    frequency_index,  \* VoxelCloud.frequency_index: bin -> offsets
    wavecube_index,   \* the wavecube_index attribute: present or not, and its map
    collapse_config,  \* VoxelCloud.collapse_config
    blob,             \* the snapshot file written by save
    last,             \* the last call: operation, arguments, outcome
    calls,            \* number of add calls made
    saves,            \* number of snapshots written
    threads,          \* per thread: where it is in an add, and that add's locals
    db,               \* GenesisDB: rows, key indexes, the files at db_path, the statement running
    log_lock          \* LogStore._interprocess_lock: the lock file, who holds it, the caller's position

vars == <<entries, spatial_index, frequency_index, wavecube_index,
          collapse_config, blob, last, calls, saves, threads, db, log_lock>>

store == <<entries, spatial_index, frequency_index, wavecube_index, collapse_config>>

EmptyDict == [k \in {} |-> <<>>]

\* dict.setdefault(key, []).append(off)
DictAppend(dict, key, off) ==
    [k \in DOMAIN dict \cup {key} |->
        IF k \in DOMAIN dict
        THEN (IF k = key THEN Append(dict[k], off) ELSE dict[k])
        ELSE <<off>>]

DictGet(dict, key) == IF key \in DOMAIN dict THEN dict[key] ELSE <<>>

\* VoxelCloud._get_frequency_bin with the default tolerance 0.05
_get_frequency_bin(fundamental_freq) ==
    IF fundamental_freq <= 0 THEN 0 ELSE fundamental_freq \div FreqBinHundredths

\* (position / [width, height, depth] * 10).astype(int)
GridPos(position) ==
    <<(position[1] * GridCells) \div width,
      (position[2] * GridCells) \div height,
      (position[3] * GridCells) \div depth>>

\* current_state of a record no tracking add has written (None)
NoState == "None"

\* VoxelCloud._create_new_entry; id is the caller's metadata id or NoMatch
\* when the metadata has none
\* record creation that puts the origin where the derivation raised
_create_new_entry_OriginCoords(es, proto, s, id, modality, octave, fundamental, harmonics) ==
    [ proto_identity |-> Fp(proto),
      mip_levels |-> generate_mip_levels(proto),
      frequency |-> s,
      id |-> IF id = NoMatch THEN Len(es) ELSE id,
      position |-> compute_frequency_position(s),
      fundamental_freq |-> fundamental,
      octave |-> octave,
      harmonic_signature |-> harmonics,
      resonance_strength |-> 1,
      modality |-> modality,
      cross_modal_links |-> <<>>,
      frequency_band |-> assign_band(s),
      wavecube_coords |-> IF extract_triplanar_coordinates(s, modality, octave) = NoCoords
                          THEN <<0, 0, 0, 0>>
                          ELSE extract_triplanar_coordinates(s, modality, octave),
      obs_sum |-> proto,
      temporal_history |-> <<>>, current_state |-> NoState, coherence_vs_core |-> 0 ]

_create_new_entry(es, proto, s, id, modality, octave, fundamental, harmonics) ==
    [ proto_identity |-> Fp(proto),
      mip_levels |-> generate_mip_levels(proto),
      frequency |-> s,
      id |-> IF id = NoMatch THEN Len(es) ELSE id,
      position |-> compute_frequency_position(s),
      fundamental_freq |-> fundamental,
      octave |-> octave,
      harmonic_signature |-> harmonics,
      resonance_strength |-> 1,
      modality |-> modality,
      cross_modal_links |-> <<>>,
      frequency_band |-> assign_band(s),
      wavecube_coords |-> extract_triplanar_coordinates(s, modality, octave),
      obs_sum |-> proto,
      temporal_history |-> <<>>, current_state |-> NoState, coherence_vs_core |-> 0 ]

\* ------------------------------------------------ voxel_cloud_clustering
\* _adaptive_spatial_tolerance with base_tolerance 1.0, in hundredths
_adaptive_spatial_tolerance(octave) ==
    LET scaled == DefaultSpatialTolerance + Abs(octave) * AdaptiveStepHundredths
        lower == IF scaled < AdaptiveMinTolerance THEN AdaptiveMinTolerance ELSE scaled
    IN  IF lower > AdaptiveMaxTolerance THEN AdaptiveMaxTolerance ELSE lower

_wavecube_bucket(coords, bucket_size) ==
    <<coords[1] \div bucket_size, coords[2] \div bucket_size, coords[3] \div bucket_size>>

\* ceil(spatial_tolerance / bucket_size), tolerance in hundredths
BucketRadius(tolerance, bucket_size) ==
    (tolerance + 100 * bucket_size - 1) \div (100 * bucket_size)

RECURSIVE ConcatAll(_)
ConcatAll(ss) ==
    IF Len(ss) = 0 THEN <<>>
    ELSE IF Len(ss) = 1 THEN ss[1]
    ELSE LET half == Len(ss) \div 2
         IN  ConcatAll(SubSeq(ss, 1, half)) \o ConcatAll(SubSeq(ss, half + 1, Len(ss)))

\* _iter_wavecube_candidates: offsets of the neighbouring buckets in loop
\* order, or <<>> for None
_iter_wavecube_candidates(wc, coords, tolerance) ==
    IF ~wc.present \/ DOMAIN wc.map = {} THEN <<>>
    ELSE LET bucket == _wavecube_bucket(coords, DefaultBucketSize)
             radius == BucketRadius(tolerance, DefaultBucketSize)
             side == 2 * radius + 1
             cell(n) == <<bucket[1] - radius + ((n - 1) \div (side * side)),
                          bucket[2] - radius + (((n - 1) \div side) % side),
                          bucket[3] - radius + ((n - 1) % side)>>
         IN  ConcatAll([n \in 1..(side * side * side) |-> DictGet(wc.map, cell(n))])

\* compute_proto_similarity: guarded cosine remapped to [0, 1]
compute_proto_similarity(proto1, proto2) == GuardedCosine(proto1, proto2, TRUE)

\* the loop of the spatial branch over candidate offsets cand[i..]
RECURSIVE SpatialScan(_, _, _, _, _, _, _)
SpatialScan(es, cand, coords, octave, i, best_distance, best_match) ==
    IF i > Len(cand) THEN [distance |-> best_distance, match |-> best_match]
    ELSE LET e == es[cand[i] + 1]
         IN  IF e.octave # octave \/ e.wavecube_coords = NoCoords
             THEN SpatialScan(es, cand, coords, octave, i + 1, best_distance, best_match)
             ELSE LET distance == compute_spatial_distance(coords, e.wavecube_coords)
                  IN  IF best_match = NoMatch \/ distance < best_distance
                      THEN SpatialScan(es, cand, coords, octave, i + 1, distance, cand[i])
                      ELSE SpatialScan(es, cand, coords, octave, i + 1,
                                       best_distance, best_match)

\* the loop of the cosine branch over entries[i..]
RECURSIVE CosineScan(_, _, _, _, _, _)
CosineScan(es, proto, octave, i, best_similarity, best_match) ==
    IF i > Len(es) THEN [similarity |-> best_similarity, match |-> best_match]
    ELSE IF es[i].octave # octave
         THEN CosineScan(es, proto, octave, i + 1, best_similarity, best_match)
         ELSE LET similarity == compute_proto_similarity(Fp(proto), es[i].proto_identity)
              IN  IF SimCmp(similarity, best_similarity) > 0
                  THEN CosineScan(es, proto, octave, i + 1, similarity, i - 1)
                  ELSE CosineScan(es, proto, octave, i + 1, best_similarity, best_match)

\* best_similarity > similarity_threshold
ThresholdTest_Strict(best_similarity, similarity_threshold) ==
    SimCmp(best_similarity, SimConst(similarity_threshold[1], similarity_threshold[2])) > 0

\* best_similarity >= similarity_threshold
ThresholdTest(best_similarity, similarity_threshold) ==
    SimCmp(best_similarity, SimConst(similarity_threshold[1], similarity_threshold[2])) >= 0

\* nearest-match search with no cosine fallback
find_nearest_proto_SpatialOnly(es, wc, proto, octave, similarity_threshold, coords, spatial_tolerance) ==
    IF coords # NoCoords
    THEN LET tolerance == IF spatial_tolerance = NoMatch
                          THEN _adaptive_spatial_tolerance(octave)
                          ELSE spatial_tolerance
             hashed == _iter_wavecube_candidates(wc, coords, tolerance)
             cand == IF hashed # <<>> THEN hashed ELSE [i \in 1..Len(es) |-> i - 1]
             scan == SpatialScan(es, cand, coords, octave, 1, 0, NoMatch)
         IN  IF scan.match # NoMatch /\ scan.distance * 10000 < tolerance * tolerance
             THEN scan.match ELSE NoMatch
    ELSE NoMatch

\* find_nearest_proto: offset of the match, NoMatch for None.
\* spatial_tolerance is in hundredths, NoMatch standing for None (adaptive).
find_nearest_proto(es, wc, proto, octave, similarity_threshold, coords, spatial_tolerance) ==
    IF coords # NoCoords
    THEN LET tolerance == IF spatial_tolerance = NoMatch
                          THEN _adaptive_spatial_tolerance(octave)
                          ELSE spatial_tolerance
             hashed == _iter_wavecube_candidates(wc, coords, tolerance)
             cand == IF hashed # <<>> THEN hashed ELSE [i \in 1..Len(es) |-> i - 1]
             scan == SpatialScan(es, cand, coords, octave, 1, 0, NoMatch)
         IN  IF scan.match # NoMatch /\ scan.distance * 10000 < tolerance * tolerance
             THEN scan.match ELSE NoMatch
    ELSE LET scan == CosineScan(es, proto, octave, 1, SimConst(0, 1), NoMatch)
         IN  IF ThresholdTest(scan.similarity, similarity_threshold)
             THEN scan.match ELSE NoMatch

\* a fixed blend weight of one half
WeightNew_Half(resonance) == <<1, 2>>

\* weight_new = 1 / resonance_strength (after the increment), as <<num, den>>
WeightNew(resonance) == <<1, resonance>>

\* weight_old * existing + weight_new * proto
WeightedAverage(existing_fp, proto, weight_new) ==
    LET wn == weight_new[1]
        wd == weight_new[2]
        wo == wd - wn
    IN  Normalize(<<wo * existing_fp.v[1] + wn * existing_fp.d * proto[1],
                    wo * existing_fp.v[2] + wn * existing_fp.d * proto[2]>>,
                  wd * existing_fp.d)

\* the strengthen branch without the resonance increment
Strengthen_NoIncrement(existing, proto) ==
    [existing EXCEPT
        !.proto_identity = WeightedAverage(@, proto, WeightNew(existing.resonance_strength)),
        !.obs_sum = <<@[1] + proto[1], @[2] + proto[2]>>]

\* the strengthen branch regenerating the pyramid from the incoming fingerprint
Strengthen_RebuildsPyramid(existing, proto) ==
    [existing EXCEPT
        !.resonance_strength = @ + 1,
        !.proto_identity = WeightedAverage(@, proto, WeightNew(existing.resonance_strength + 1)),
        !.mip_levels = generate_mip_levels(proto),
        !.obs_sum = <<@[1] + proto[1], @[2] + proto[2]>>]

\* the strengthen branch of add_or_strengthen_proto on the matched record
Strengthen(existing, proto) ==
    [existing EXCEPT
        !.resonance_strength = @ + 1,
        !.proto_identity = WeightedAverage(@, proto, WeightNew(existing.resonance_strength + 1)),
        !.obs_sum = <<@[1] + proto[1], @[2] + proto[2]>>]

AddOps == {"add", "add_or_strengthen_proto"}

\* the camera field of a call that takes no camera
NoCamera == [position |-> <<0, 0, 0>>, forward |-> <<0, 0, 1>>, cos2 |-> <<1, 1>>,
             near |-> 0, far |-> 0]

\* the call just made: its arguments (those a query alone takes left at a
\* default), its outcome and what it returned
Call(op, obs, thr, coords, outcome, idx, result) ==
    [op |-> op, proto |-> obs.proto, spectrum |-> obs.spectrum, octave |-> obs.octave,
     modality |-> obs.modality, thr |-> thr, coords |-> coords,
     outcome |-> outcome, idx |-> idx, result |-> result,
     max_results |-> 0, similarity_metric |-> "", band |-> NoMatch, camera |-> NoCamera,
     phase_coherence_threshold |-> 0, count |-> 0, error |-> "", absent_keys |-> {},
     key |-> "", damage |-> "", spatial_tolerance |-> DefaultSpatialTolerance,
     lods |-> <<>>]

NoObs == [proto |-> <<0, 0>>, spectrum |-> 1, octave |-> 0, modality |-> "text"]

\* add_or_strengthen_proto(voxel_cloud, proto, frequency, octave, modality=...,
\*   similarity_threshold=thr, wavecube_coords=coords)
AddOrStrengthenProto(obs, thr, coords) ==
    /\ calls < MaxCalls
    /\ calls' = calls + 1
    /\ LET existing == find_nearest_proto(entries, wavecube_index, obs.proto, obs.octave,
                                          thr, coords, DefaultSpatialTolerance)
       IN  IF existing # NoMatch
           THEN /\ entries' = [entries EXCEPT ![existing + 1] = Strengthen(@, obs.proto)]
                /\ UNCHANGED <<spatial_index, frequency_index, wavecube_index>>
                /\ last' = Call("add_or_strengthen_proto", obs, thr, coords,
                                "merged", existing, <<>>)
           ELSE LET fundamental == extract_fundamental(obs.spectrum)
                    harmonics == extract_harmonics(obs.spectrum, fundamental)
                    created == _create_new_entry(entries, obs.proto, obs.spectrum, NoMatch,
                                                 obs.modality, obs.octave,
                                                 fundamental, harmonics)
                    entry == [created EXCEPT
                                 !.octave = obs.octave,
                                 !.resonance_strength = 1,
                                 !.wavecube_coords = IF coords # NoCoords THEN coords ELSE @]
                    entry_idx == Len(entries)
                IN  /\ entries' = Append(entries, entry)
                    /\ spatial_index' = DictAppend(spatial_index, GridPos(entry.position),
                                                   entry_idx)
                    /\ frequency_index' = DictAppend(frequency_index,
                                                     _get_frequency_bin(fundamental), entry_idx)
                    /\ IF entry.wavecube_coords = NoCoords
                       THEN /\ UNCHANGED wavecube_index
                            /\ last' = Call("add_or_strengthen_proto", obs, thr, coords,
                                            "created", entry_idx, <<>>)
                       ELSE IF wavecube_index.present
                       THEN /\ wavecube_index' =
                                  [wavecube_index EXCEPT !.map =
                                      DictAppend(@, _wavecube_bucket(entry.wavecube_coords,
                                                                     DefaultBucketSize),
                                                 entry_idx)]
                            /\ last' = Call("add_or_strengthen_proto", obs, thr, coords,
                                            "created", entry_idx, <<>>)
                       ELSE \* AttributeError: VoxelCloud has no wavecube_index
                            /\ UNCHANGED wavecube_index
                            /\ last' = Call("add_or_strengthen_proto", obs, thr, coords,
                                            "raised", entry_idx, <<>>)
    /\ UNCHANGED <<collapse_config, blob, saves, threads, db, log_lock>>

\* add_or_strengthen_proto(..., wavecube_coords=coords,
\*   spatial_tolerance=spatial_tolerance): the tolerance in hundredths, NoMatch
\* standing for None (adaptive)
AddOrStrengthenProtoWithin(obs, thr, coords, spatial_tolerance) ==
    /\ calls < MaxCalls
    /\ calls' = calls + 1
    /\ LET existing == find_nearest_proto(entries, wavecube_index, obs.proto, obs.octave,
                                          thr, coords, spatial_tolerance)
       IN  IF existing # NoMatch
           THEN /\ entries' = [entries EXCEPT ![existing + 1] = Strengthen(@, obs.proto)]
                /\ UNCHANGED <<spatial_index, frequency_index, wavecube_index>>
                /\ last' = [Call("add_or_strengthen_proto", obs, thr, coords,
                                "merged", existing, <<>>) EXCEPT !.spatial_tolerance = spatial_tolerance]
           ELSE LET fundamental == extract_fundamental(obs.spectrum)
                    harmonics == extract_harmonics(obs.spectrum, fundamental)
                    created == _create_new_entry(entries, obs.proto, obs.spectrum, NoMatch,
                                                 obs.modality, obs.octave,
                                                 fundamental, harmonics)
                    entry == [created EXCEPT
                                 !.octave = obs.octave,
                                 !.resonance_strength = 1,
                                 !.wavecube_coords = IF coords # NoCoords THEN coords ELSE @]
                    entry_idx == Len(entries)
                IN  /\ entries' = Append(entries, entry)
                    /\ spatial_index' = DictAppend(spatial_index, GridPos(entry.position),
                                                   entry_idx)
                    /\ frequency_index' = DictAppend(frequency_index,
                                                     _get_frequency_bin(fundamental), entry_idx)
                    /\ IF entry.wavecube_coords = NoCoords
                       THEN /\ UNCHANGED wavecube_index
                            /\ last' = [Call("add_or_strengthen_proto", obs, thr, coords,
                                            "created", entry_idx, <<>>) EXCEPT !.spatial_tolerance = spatial_tolerance]
                       ELSE IF wavecube_index.present
                       THEN /\ wavecube_index' =
                                  [wavecube_index EXCEPT !.map =
                                      DictAppend(@, _wavecube_bucket(entry.wavecube_coords,
                                                                     DefaultBucketSize),
                                                 entry_idx)]
                            /\ last' = [Call("add_or_strengthen_proto", obs, thr, coords,
                                            "created", entry_idx, <<>>) EXCEPT !.spatial_tolerance = spatial_tolerance]
                       ELSE \* AttributeError: VoxelCloud has no wavecube_index
                            /\ UNCHANGED wavecube_index
                            /\ last' = [Call("add_or_strengthen_proto", obs, thr, coords,
                                            "raised", entry_idx, <<>>) EXCEPT !.spatial_tolerance = spatial_tolerance]
    /\ UNCHANGED <<collapse_config, blob, saves, threads, db, log_lock>>

\* ------------------------------------------- VoxelCloud.add (voxel_cloud.py)
\* compute_cosine_similarity of voxel_helpers: the raw guarded cosine
compute_cosine_similarity(proto1, proto2) == GuardedCosine(proto1, proto2, FALSE)

\* collapse_ops.find_similar_by_frequency(cloud, fundamental, harmonics):
\* offsets listed under the bin of the fundamental (octave_tolerance 0) whose
\* harmonics lie within harmonic_tolerance; the call receives no octave tag
find_similar_by_frequency(es, fidx, config, fundamental, harmonics) ==
    IF ~config.enable THEN <<>>
    ELSE SelectSeq(DictGet(fidx, _get_frequency_bin(fundamental)),
                   LAMBDA off : Abs(es[off + 1].harmonic_signature - harmonics)
                                    <= config.harmonic_tolerance)

\* collapse_ops.check_similarity_for_collapse(proto, candidate, threshold)
check_similarity_for_collapse(proto, candidate, threshold) ==
    SimCmp(compute_cosine_similarity(Fp(proto), candidate.proto_identity),
           SimConst(threshold[1], threshold[2])) >= 0

\* a merge that also resets the link set of the record
merge_proto_identity_ClearsLinks(existing, new_proto) ==
    [existing EXCEPT
        !.resonance_strength = @ + 1,
        !.proto_identity = WeightedAverage(@, new_proto,
                                           WeightNew(existing.resonance_strength + 1)),
        !.obs_sum = <<@[1] + new_proto[1], @[2] + new_proto[2]>>,
        !.cross_modal_links = <<>>]

\* collapse_ops.merge_proto_identity(existing, new_proto, ...)
merge_proto_identity(existing, new_proto) ==
    [existing EXCEPT
        !.resonance_strength = @ + 1,
        !.proto_identity = WeightedAverage(@, new_proto,
                                           WeightNew(existing.resonance_strength + 1)),
        !.obs_sum = <<@[1] + new_proto[1], @[2] + new_proto[2]>>]

\* the for loop of add: offset of the first candidate that passes, or NoMatch
RECURSIVE FirstCollapse(_, _, _, _, _)
FirstCollapse(es, matches, proto, threshold, i) ==
    IF i > Len(matches) THEN NoMatch
    ELSE IF check_similarity_for_collapse(proto, es[matches[i] + 1], threshold)
         THEN matches[i]
         ELSE FirstCollapse(es, matches, proto, threshold, i + 1)

\* metadata['id'] of the observation, NoMatch when the caller's metadata has none
MetadataId(obs) == IF "id" \in DOMAIN obs THEN obs.id ELSE NoMatch

\* VoxelCloud.add(proto, frequency, {'octave': ..., 'modality': ..., 'id': ...})
VoxelCloudAdd(obs) ==
    /\ calls < MaxCalls
    /\ calls' = calls + 1
    /\ LET fundamental == extract_fundamental(obs.spectrum)
           harmonics == extract_harmonics(obs.spectrum, fundamental)
           matches == find_similar_by_frequency(entries, frequency_index, collapse_config,
                                                fundamental, harmonics)
           candidate == FirstCollapse(entries, matches, obs.proto,
                                      collapse_config.cosine_threshold, 1)
       IN  IF candidate # NoMatch
           THEN /\ entries' = [entries EXCEPT
                                  ![candidate + 1] = merge_proto_identity(@, obs.proto)]
                /\ UNCHANGED <<spatial_index, frequency_index>>
                /\ last' = Call("add", obs, collapse_config.cosine_threshold, NoCoords,
                                "merged", candidate, <<>>)
           ELSE LET entry == _create_new_entry(entries, obs.proto, obs.spectrum,
                                               MetadataId(obs),
                                               obs.modality, obs.octave,
                                               fundamental, harmonics)
                    entry_idx == Len(entries)
                IN  /\ entries' = Append(entries, entry)
                    /\ spatial_index' = DictAppend(spatial_index, GridPos(entry.position),
                                                   entry_idx)
                    /\ frequency_index' = DictAppend(frequency_index,
                                                     _get_frequency_bin(fundamental), entry_idx)
                    /\ last' = Call("add", obs, collapse_config.cosine_threshold, NoCoords,
                                    "created", entry_idx, <<>>)
    /\ UNCHANGED <<wavecube_index, collapse_config, blob, saves, threads, db, log_lock>>

\* ------------------------------------------------- temporal tracking
\* what the tracking components can hand to one add: the value of
\* compute_coherence on a store that holds records, in hundredths (the mean
\* of the ten highest cosines, clamped to [0, 1]), and the state classified
Trackings == { [state |-> "IDENTITY", coherence |-> 50],
               [state |-> "PARADOX", coherence |-> 0] }

\* add_with_temporal_tracking(proto, frequency, metadata, timestamp): the
\* coherence is computed and the state classified before the add, the add
\* runs, and the tracking fields are then written on self.entries[-1].
\* temporal_buffer and state_classifier decide the state; the timestamp is
\* the number of the call.
AddWithTemporalTracking(obs, tracked) ==
    /\ calls < MaxCalls
    /\ calls' = calls + 1
    /\ LET timestamp == calls + 1
           state == tracked.state
           coherence == IF Len(entries) = 0 THEN 0 ELSE tracked.coherence
           fundamental == extract_fundamental(obs.spectrum)
           harmonics == extract_harmonics(obs.spectrum, fundamental)
           matches == find_similar_by_frequency(entries, frequency_index, collapse_config,
                                                fundamental, harmonics)
           candidate == FirstCollapse(entries, matches, obs.proto,
                                      collapse_config.cosine_threshold, 1)
           entry == _create_new_entry(entries, obs.proto, obs.spectrum, MetadataId(obs),
                                      obs.modality, obs.octave, fundamental, harmonics)
           entry_idx == Len(entries)
           added == IF candidate # NoMatch
                    THEN [entries EXCEPT
                             ![candidate + 1] = merge_proto_identity(@, obs.proto)]
                    ELSE Append(entries, entry)
           track(e) == [e EXCEPT !.current_state = state,
                                 !.coherence_vs_core = coherence,
                                 !.temporal_history = Append(@, <<timestamp, obs.proto>>)]
       IN  /\ entries' = [added EXCEPT ![Len(added)] = track(@)]
           /\ IF candidate # NoMatch
              THEN /\ UNCHANGED <<spatial_index, frequency_index>>
                   /\ last' = Call("add_with_temporal_tracking", obs,
                                   collapse_config.cosine_threshold, NoCoords,
                                   "merged", candidate, <<>>)
              ELSE /\ spatial_index' = DictAppend(spatial_index, GridPos(entry.position),
                                                  entry_idx)
                   /\ frequency_index' = DictAppend(frequency_index,
                                                    _get_frequency_bin(fundamental),
                                                    entry_idx)
                   /\ last' = Call("add_with_temporal_tracking", obs,
                                   collapse_config.cosine_threshold, NoCoords,
                                   "created", entry_idx, <<>>)
    /\ UNCHANGED <<wavecube_index, collapse_config, blob, saves, threads, db, log_lock>>

\* --------------------------------------------- queries (voxel_cloud_query)
Min(a, b) == IF a < b THEN a ELSE b

\* list[:k]
Take(sq, k) == SubSeq(sq, 1, Min(k, Len(sq)))

\* list.sort is stable: the items 1..n ordered by the strict order Before,
\* items that tie keeping their relative position
StableSort(n, Before(_, _)) ==
    LET rank(i) == Cardinality({j \in 1..n : Before(j, i) \/ (~Before(i, j) /\ j < i)})
    IN  [p \in 1..n |-> CHOOSE i \in 1..n : rank(i) = p - 1]

\* squared norm of query - stored, as <<numerator, denominator>>
DiffNormSq(query, fp) ==
    <<(query[1] * fp.d - fp.v[1]) * (query[1] * fp.d - fp.v[1])
        + (query[2] * fp.d - fp.v[2]) * (query[2] * fp.d - fp.v[2]),
      fp.d * fp.d>>

\* 1 / (diff + 1e-6) of entry i is larger than that of entry j
L2Greater(es, query, i, j) ==
    LET a == DiffNormSq(query, es[i].proto_identity)
        b == DiffNormSq(query, es[j].proto_identity)
    IN  a[1] * b[2] < b[1] * a[2]

\* query_by_proto_similarity with a sort that is not stable: records that tie
\* come out in reverse insertion order
query_by_proto_similarity_TiesReversed(es, query_proto, max_results, similarity_metric) ==
    IF Len(es) = 0 THEN <<>>
    ELSE LET sim(i) == compute_cosine_similarity(Fp(query_proto), es[i].proto_identity)
             Before(i, j) == IF similarity_metric = "cosine"
                             THEN SimCmp(sim(i), sim(j)) > 0
                             ELSE L2Greater(es, query_proto, i, j)
             After(i, j) == Before(i, j) \/ (~Before(j, i) /\ j < i)
             sorted == StableSort(Len(es), After)
         IN  Take([n \in 1..Len(es) |-> sorted[n] - 1], max_results)

\* query_by_proto_similarity without the sort: the first max_results records
query_by_proto_similarity_Unsorted(es, query_proto, max_results, similarity_metric) ==
    IF Len(es) = 0 THEN <<>>
    ELSE Take([n \in 1..Len(es) |-> n - 1], max_results)

\* query_by_proto_similarity: offsets of the max_results best records
query_by_proto_similarity(es, query_proto, max_results, similarity_metric) ==
    IF Len(es) = 0 THEN <<>>
    ELSE LET sim(i) == compute_cosine_similarity(Fp(query_proto), es[i].proto_identity)
             Before(i, j) == IF similarity_metric = "cosine"
                             THEN SimCmp(sim(i), sim(j)) > 0
                             ELSE L2Greater(es, query_proto, i, j)
             sorted == StableSort(Len(es), Before)
         IN  Take([n \in 1..Len(es) |-> sorted[n] - 1], max_results)

\* FrequencyBandClustering.cluster_by_band: the records tagged with the band
cluster_by_band(es, band) ==
    SelectSeq([i \in 1..Len(es) |-> i - 1], LAMBDA off : es[off + 1].frequency_band = band)

\* query_by_frequency_band without the sort by resonance
query_by_frequency_band_Unsorted(es, band, max_results) ==
    Take(cluster_by_band(es, band), max_results)

\* query_by_frequency_band after the band check
query_by_frequency_band(es, band, max_results) ==
    LET results == cluster_by_band(es, band)
        Before(i, j) == es[results[i] + 1].resonance_strength
                            > es[results[j] + 1].resonance_strength
        sorted == StableSort(Len(results), Before)
    IN  Take([n \in 1..Len(results) |-> results[sorted[n]]], max_results)

InSeq(x, sq) == \E n \in 1..Len(sq) : sq[n] = x

\* find_cross_modal_links for the record at offset off
find_cross_modal_links(es, off) ==
    LET entry == es[off + 1]
    IN  SelectSeq([i \in 1..Len(es) |-> i - 1],
                  LAMBDA o : /\ es[o + 1].modality # entry.modality
                             /\ \/ InSeq(es[o + 1].id, entry.cross_modal_links)
                                \/ InSeq(entry.id, es[o + 1].cross_modal_links))

\* query_by_octave (voxel_cloud_clustering)
query_by_octave(es, query_proto, octave, max_results, use_spatial_distance, coords) ==
    IF use_spatial_distance /\ coords # NoCoords
    THEN LET results == SelectSeq([i \in 1..Len(es) |-> i - 1],
                            LAMBDA off : /\ es[off + 1].octave = octave
                                         /\ es[off + 1].wavecube_coords # NoCoords)
             dist(n) == compute_spatial_distance(coords, es[results[n] + 1].wavecube_coords)
             Before(i, j) == dist(i) < dist(j)
             sorted == StableSort(Len(results), Before)
         IN  Take([n \in 1..Len(results) |-> results[sorted[n]]], max_results)
    ELSE LET results == SelectSeq([i \in 1..Len(es) |-> i - 1],
                            LAMBDA off : es[off + 1].octave = octave)
             sim(n) == compute_proto_similarity(Fp(query_proto),
                                                es[results[n] + 1].proto_identity)
             Before(i, j) == SimCmp(sim(i), sim(j)) > 0
             sorted == StableSort(Len(results), Before)
         IN  Take([n \in 1..Len(results) |-> results[sorted[n]]], max_results)

\* squared Euclidean distance of two positions
PosDistSq(p1, p2) ==
    (p1[1] - p2[1]) * (p1[1] - p2[1]) + (p1[2] - p2[2]) * (p1[2] - p2[2])
        + (p1[3] - p2[3]) * (p1[3] - p2[3])

\* collapse_ops.find_by_frequency_internal with octave_tolerance 0: the bin
\* of the query fundamental, filtered by harmonic tolerance, closest first
find_by_frequency(es, fidx, query_freq, query_harmonics, harmonic_tolerance, max_results) ==
    LET results == SelectSeq(DictGet(fidx, _get_frequency_bin(query_freq)),
                       LAMBDA off : Abs(es[off + 1].harmonic_signature - query_harmonics)
                                        <= harmonic_tolerance)
        closeness(n) == Abs(es[results[n] + 1].fundamental_freq - query_freq)
                          + Abs(es[results[n] + 1].harmonic_signature - query_harmonics)
        Before(i, j) == closeness(i) < closeness(j)
        sorted == StableSort(Len(results), Before)
    IN  Take([n \in 1..Len(results) |-> results[sorted[n]]], max_results)

\* the spatial branch of query_viewport
query_viewport(es, query_freq, radius, max_results) ==
    LET query_pos == compute_frequency_position(query_freq)
        visible == SelectSeq([i \in 1..Len(es) |-> i - 1],
                       LAMBDA off : PosDistSq(es[off + 1].position, query_pos)
                                        <= radius * radius)
        Before(i, j) == PosDistSq(es[visible[i] + 1].position, query_pos)
                            < PosDistSq(es[visible[j] + 1].position, query_pos)
        sorted == StableSort(Len(visible), Before)
    IN  Take([n \in 1..Len(visible) |-> visible[sorted[n]]], max_results)

\* cameras: position and axis-aligned unit forward vector, cos^2 of half the
\* field of view as <<num, den>>, near and far
Cameras ==
    { [position |-> <<0, 0, 0>>, forward |-> <<0, 0, 1>>, cos2 |-> <<3, 4>>,
       near |-> 10, far |-> 1000],
      [position |-> <<256, 100, 0>>, forward |-> <<0, 0, 1>>, cos2 |-> <<1, 2>>,
       near |-> 0, far |-> 60] }

RaycastVoxelSize == 5

\* ProjectionMatrix.is_voxel_visible
is_voxel_visible(cam, voxel_pos, voxel_size) ==
    LET to_voxel == <<voxel_pos[1] - cam.position[1], voxel_pos[2] - cam.position[2],
                      voxel_pos[3] - cam.position[3]>>
        distsq == PosDistSq(voxel_pos, cam.position)
        depth_ == to_voxel[1] * cam.forward[1] + to_voxel[2] * cam.forward[2]
                    + to_voxel[3] * cam.forward[3]
    IN  IF distsq = 0 THEN TRUE
        ELSE IF depth_ < cam.near - voxel_size \/ depth_ > cam.far + voxel_size THEN FALSE
        ELSE depth_ > 0 /\ depth_ * depth_ * cam.cos2[2] > cam.cos2[1] * distsq

\* ProjectionMatrix.compute_lod_level
compute_lod_level(cam, voxel_pos) ==
    LET distsq == PosDistSq(voxel_pos, cam.position)
    IN  IF distsq < 10 * 10 THEN 0
        ELSE IF distsq < 100 * 100 THEN 1
        ELSE IF distsq < 200 * 200 THEN 2
        ELSE IF distsq < 400 * 400 THEN 3
        ELSE 4

\* query_by_raycast: the visible records, closest to the camera first
query_by_raycast(es, cam, max_results) ==
    LET visible == SelectSeq([i \in 1..Len(es) |-> i - 1],
                       LAMBDA off : is_voxel_visible(cam, es[off + 1].position,
                                                     RaycastVoxelSize))
        Before(i, j) == PosDistSq(es[visible[i] + 1].position, cam.position)
                            < PosDistSq(es[visible[j] + 1].position, cam.position)
        sorted == StableSort(Len(visible), Before)
    IN  Take([n \in 1..Len(visible) |-> visible[sorted[n]]], max_results)

\* the list `visible` of query_by_raycast after its sort: one (entry, lod_level)
\* pair per visible record, closest to the camera first
raycast_visible(es, cam) ==
    LET ranked == query_by_raycast(es, cam, Len(es))
    IN  [n \in 1..Len(ranked) |->
            [entry |-> ranked[n],
             lod_level |-> compute_lod_level(cam, es[ranked[n] + 1].position)]]

\* the LOD levels in the value query_by_raycast returns: the return statement
\* `[entry for entry, _ in visible[:max_results]]` keeps the entry of each pair
\* and binds the level to _, so the returned list carries none
raycast_returned_lods(es, cam, max_results) ==
    SelectSeq([n \in 1..Len(Take(raycast_visible(es, cam), max_results)) |->
                  raycast_visible(es, cam)[n].lod_level],
              LAMBDA lod_level : FALSE)

QueryOps == {"query_by_proto_similarity", "find_by_frequency", "query_viewport",
             "query_by_frequency_band", "query_by_raycast", "find_cross_modal_links",
             "query_by_octave"}

QueryCall(op, outcome, result) ==
    Call(op, NoObs, <<0, 1>>, NoCoords, outcome, NoMatch, result)

Unchanged == UNCHANGED <<entries, spatial_index, frequency_index, wavecube_index,
                         collapse_config, blob, calls, saves, threads, db, log_lock>>

\* the store's own list put in the order of the ranking
SortedBySimilarity(es, query_proto, similarity_metric) ==
    LET ranked == query_by_proto_similarity(es, query_proto, Len(es), similarity_metric)
    IN  [n \in 1..Len(es) |-> es[ranked[n] + 1]]

\* the ranking done in place on voxel_cloud.entries
QueryByProtoSimilarity_SortsStore(query_proto, max_results, similarity_metric) ==
    /\ last' = [QueryCall("query_by_proto_similarity", "ok",
                          query_by_proto_similarity(entries, query_proto, max_results,
                                                    similarity_metric))
                   EXCEPT !.proto = query_proto, !.max_results = max_results,
                          !.similarity_metric = similarity_metric]
    /\ entries' = SortedBySimilarity(entries, query_proto, similarity_metric)
    /\ UNCHANGED <<spatial_index, frequency_index, wavecube_index, collapse_config, blob,
                   calls, saves, threads, db, log_lock>>

QueryByProtoSimilarity(query_proto, max_results, similarity_metric) ==
    /\ last' = [QueryCall("query_by_proto_similarity", "ok",
                          query_by_proto_similarity(entries, query_proto, max_results,
                                                    similarity_metric))
                   EXCEPT !.proto = query_proto, !.max_results = max_results,
                          !.similarity_metric = similarity_metric]
    /\ Unchanged

FindByFrequency(query_freq, max_results) ==
    /\ last' = QueryCall("find_by_frequency", "ok",
                         find_by_frequency(entries, frequency_index,
                                           extract_fundamental(query_freq),
                                           extract_harmonics(query_freq,
                                                             extract_fundamental(query_freq)),
                                           30, max_results))
    /\ Unchanged

\* query_viewport; query_proto NoCoords stands for None
QueryViewport(query_freq, radius, max_results, query_proto) ==
    /\ last' = QueryCall("query_viewport", "ok",
                         IF query_proto # NoCoords
                         THEN query_by_proto_similarity(entries, query_proto, max_results,
                                                        "cosine")
                         ELSE query_viewport(entries, query_freq, radius, max_results))
    /\ Unchanged

\* query_by_frequency_band without the band check: an unknown band selects
\* no record
QueryByFrequencyBand_NoValidation(band, max_results) ==
    /\ last' = [QueryCall("query_by_frequency_band", "ok",
                          query_by_frequency_band(entries, band, max_results))
                   EXCEPT !.band = band, !.max_results = max_results]
    /\ Unchanged

\* query_by_frequency_band; the ValueError's message names the band
QueryByFrequencyBand(band, max_results) ==
    /\ IF band \notin {0, 1, 2}
       THEN last' = [QueryCall("query_by_frequency_band", "raised", <<>>)
                        EXCEPT !.band = band, !.max_results = max_results,
                               !.error = "ValueError"]
       ELSE last' = [QueryCall("query_by_frequency_band", "ok",
                               query_by_frequency_band(entries, band, max_results))
                        EXCEPT !.band = band, !.max_results = max_results]
    /\ Unchanged

QueryByRaycast(cam, max_results) ==
    /\ last' = [QueryCall("query_by_raycast", "ok",
                          query_by_raycast(entries, cam, max_results))
                   EXCEPT !.camera = cam, !.max_results = max_results,
                          !.lods = raycast_returned_lods(entries, cam, max_results)]
    /\ Unchanged

FindCrossModalLinks(off) ==
    /\ off \in 0..(Len(entries) - 1)
    /\ last' = [QueryCall("find_cross_modal_links", "ok",
                          find_cross_modal_links(entries, off))
                   EXCEPT !.idx = off]
    /\ Unchanged

QueryByOctave(query_proto, octave, max_results, coords) ==
    /\ last' = QueryCall("query_by_octave", "ok",
                         query_by_octave(entries, query_proto, octave, max_results,
                                         TRUE, coords))
    /\ Unchanged

\* ----------------------------------------------------- cross-modal linker
\* the (text, other) offset pairs in the order the loops visit them
LinkPairs(es) ==
    LET offs == [i \in 1..Len(es) |-> i - 1]
        texts == SelectSeq(offs, LAMBDA o : es[o + 1].modality = "text")
        images == SelectSeq(offs, LAMBDA o : es[o + 1].modality = "image")
        audios == SelectSeq(offs, LAMBDA o : es[o + 1].modality = "audio")
        others == images \o audios
    IN  [n \in 1..(Len(texts) * Len(others)) |->
            <<texts[((n - 1) \div Len(others)) + 1], others[((n - 1) % Len(others)) + 1]>>]

\* the pair linked without looking whether the identifiers are already there
LinkPair_NoMembershipTest(acc, t, o, phase_coherence_threshold) ==
    LET es == acc.entries
        text_proto == es[t + 1]
        other == es[o + 1]
        freq_diff == Abs(other.fundamental_freq - text_proto.fundamental_freq)
    IN  IF ~(freq_diff < phase_coherence_threshold) THEN acc
        ELSE [entries |-> [es EXCEPT ![t + 1].cross_modal_links = Append(@, other.id),
                                     ![o + 1].cross_modal_links = Append(@, text_proto.id)],
              links_created |-> acc.links_created + 1]

\* the body of the inner loops for one (text, other) pair
LinkPair(acc, t, o, phase_coherence_threshold) ==
    LET es == acc.entries
        text_proto == es[t + 1]
        other == es[o + 1]
        freq_diff == Abs(other.fundamental_freq - text_proto.fundamental_freq)
    IN  IF ~(freq_diff < phase_coherence_threshold) THEN acc
        ELSE LET forward == ~InSeq(other.id, text_proto.cross_modal_links)
                 es1 == IF forward
                        THEN [es EXCEPT ![t + 1].cross_modal_links = Append(@, other.id)]
                        ELSE es
                 es2 == IF ~InSeq(text_proto.id, other.cross_modal_links)
                        THEN [es1 EXCEPT ![o + 1].cross_modal_links = Append(@, text_proto.id)]
                        ELSE es1
             IN  [entries |-> es2,
                  links_created |-> acc.links_created + (IF forward THEN 1 ELSE 0)]

RECURSIVE LinkLoop(_, _, _, _)
LinkLoop(acc, pairs, n, threshold) ==
    IF n > Len(pairs) THEN acc
    ELSE LinkLoop(LinkPair(acc, pairs[n][1], pairs[n][2], threshold), pairs, n + 1, threshold)

\* link_cross_modal_protos: the store's records and the returned count
link_cross_modal_protos(es, phase_coherence_threshold) ==
    LinkLoop([entries |-> es, links_created |-> 0], LinkPairs(es), 1,
             phase_coherence_threshold)

LinkCrossModalProtos(phase_coherence_threshold) ==
    /\ LET done == link_cross_modal_protos(entries, phase_coherence_threshold)
       IN  /\ entries' = done.entries
           /\ last' = [QueryCall("link_cross_modal_protos", "ok", <<>>)
                          EXCEPT !.idx = done.links_created, !.count = done.links_created,
                                 !.phase_coherence_threshold = phase_coherence_threshold]
    /\ UNCHANGED <<spatial_index, frequency_index, wavecube_index, collapse_config, blob,
                   calls, saves, threads, db, log_lock>>

\* ------------------------------------------------------------- snapshots
\* the collapse_config VoxelCloud() and load fall back to
DefaultCollapseConfig ==
    [harmonic_tolerance |-> 5, cosine_threshold |-> <<85, 100>>,
     octave_tolerance |-> 0, enable |-> TRUE]

\* keys of the pickled dictionary that load treats as optional
OptionalKeys == {"frequency_index", "collapse_config"}

\* VoxelCloud.save: the pickled dictionary.  saved_store is not in the file:
\* it remembers the store the snapshot was taken of.
Save ==
    /\ saves < MaxSaves
    /\ saves' = saves + 1
    /\ blob' = [present |-> TRUE, entries |-> entries, spatial_index |-> spatial_index,
                frequency_index |-> frequency_index, collapse_config |-> collapse_config,
                saved_store |-> store]
    /\ last' = QueryCall("save", "ok", <<>>)
    /\ UNCHANGED <<entries, spatial_index, frequency_index, wavecube_index, collapse_config,
                   calls, threads, db, log_lock>>

\* the loop of load that rebuilds frequency_index from entries[i..]
RECURSIVE RebuildFrequencyIndex(_, _, _)
RebuildFrequencyIndex(es, i, fidx) ==
    IF i > Len(es) THEN fidx
    ELSE RebuildFrequencyIndex(es, i + 1,
                               DictAppend(fidx, _get_frequency_bin(es[i].fundamental_freq),
                                          i - 1))

\* load that assigns no spatial index
Load_NoSpatialIndex(absent_keys) ==
    /\ IF blob.present
       THEN /\ entries' = blob.entries
            /\ spatial_index' = EmptyDict
            /\ frequency_index' = blob.frequency_index
            /\ collapse_config' = blob.collapse_config
            /\ last' = [QueryCall("load", "ok", <<>>) EXCEPT !.absent_keys = absent_keys]
       ELSE /\ UNCHANGED <<entries, spatial_index, frequency_index, collapse_config>>
            /\ last' = [QueryCall("load", "raised", <<>>) EXCEPT !.absent_keys = absent_keys]
    /\ UNCHANGED <<wavecube_index, blob, calls, saves, threads, db, log_lock>>

\* VoxelCloud.load of the file written by save, or of that file as an older
\* version wrote it, without the keys in absent_keys (no file: the read raises
\* before anything is assigned).  Nothing is assigned to a wavecube_index.
Load(absent_keys) ==
    /\ IF blob.present
       THEN /\ entries' = blob.entries
            /\ spatial_index' = blob.spatial_index
            /\ frequency_index' = IF "frequency_index" \in absent_keys
                                  THEN RebuildFrequencyIndex(blob.entries, 1, EmptyDict)
                                  ELSE blob.frequency_index
            /\ collapse_config' = IF "collapse_config" \in absent_keys
                                  THEN DefaultCollapseConfig ELSE blob.collapse_config
            /\ last' = [QueryCall("load", "ok", <<>>) EXCEPT !.absent_keys = absent_keys]
       ELSE /\ UNCHANGED <<entries, spatial_index, frequency_index, collapse_config>>
            /\ last' = [QueryCall("load", "raised", <<>>) EXCEPT !.absent_keys = absent_keys]
    /\ UNCHANGED <<wavecube_index, blob, calls, saves, threads, db, log_lock>>

\* the keys load reads with data[...]: a snapshot without one of them cannot
\* be loaded
RequiredKeys == {"width", "height", "depth", "entries", "spatial_index"}

\* the ways a required key of the file can be damaged: the key is missing, or
\* its value is not what save wrote
Damages == {"missing", "corrupt"}

\* record content of a damaged file: every fingerprint zeroed
ZeroedEntries(es) ==
    [i \in DOMAIN es |-> [es[i] EXCEPT !.proto_identity = Fp(<<0, 0>>)]]

\* spatial index of a damaged file: one cell listing an offset no record has
DanglingSpatialIndex(es) ==
    DictAppend(EmptyDict, <<0, 0, 0>>, Len(es))

\* VoxelCloud.load of a file whose required key is damaged.  The keys are
\* read one after the other inside the try block, each value assigned as it
\* is read and none of them examined: a missing key raises KeyError(key) at
\* its own line, after the keys before it were assigned, and the handler
\* logs and re-raises; a value that is present is assigned whatever it holds
\* and the load runs to its end.  The dimensions are constants of the model.
LoadDamaged(key, damage) ==
    /\ blob.present
    /\ LET data_entries == IF key = "entries" THEN ZeroedEntries(blob.entries)
                           ELSE blob.entries
           data_spatial_index == IF key = "spatial_index"
                                 THEN DanglingSpatialIndex(blob.entries)
                                 ELSE blob.spatial_index
           call(outcome, error) ==
               [QueryCall("load_damaged", outcome, <<>>)
                   EXCEPT !.key = key, !.damage = damage, !.error = error]
       IN  IF damage = "missing"
           THEN /\ entries' = IF key = "spatial_index" THEN blob.entries ELSE entries
                /\ UNCHANGED <<spatial_index, frequency_index, collapse_config>>
                /\ last' = call("raised", key)
           ELSE /\ entries' = data_entries
                /\ spatial_index' = data_spatial_index
                /\ frequency_index' = blob.frequency_index
                /\ collapse_config' = blob.collapse_config
                /\ last' = call("ok", "")
    /\ UNCHANGED <<wavecube_index, blob, calls, saves, threads, db, log_lock>>

\* ------------------------------------------------- adds run by threads
\* VoxelCloud takes no lock: a thread switch can fall between any two
\* statements of an add
Threads == {"t1", "t2"}

IdleThread == [pc |-> "idle", op |-> "add", obs |-> NoObs, thr |-> <<0, 1>>,
               entry_idx |-> NoMatch]

\* the match search of an add and, on a match, its merge (add: lines 254-267;
\* add_or_strengthen_proto: lines 219-244)
ThreadFindMatch(t, op, obs, thr) ==
    /\ threads[t].pc = "idle"
    /\ calls < MaxStoreCalls
    /\ calls' = calls + 1
    /\ LET fundamental == extract_fundamental(obs.spectrum)
           matches == find_similar_by_frequency(entries, frequency_index, collapse_config,
                                                fundamental,
                                                extract_harmonics(obs.spectrum, fundamental))
           existing == IF op = "add"
                       THEN FirstCollapse(entries, matches, obs.proto,
                                          collapse_config.cosine_threshold, 1)
                       ELSE find_nearest_proto(entries, wavecube_index, obs.proto, obs.octave,
                                               thr, NoCoords, DefaultSpatialTolerance)
       IN  IF existing # NoMatch
           THEN /\ entries' = [entries EXCEPT
                                  ![existing + 1] = IF op = "add"
                                                    THEN merge_proto_identity(@, obs.proto)
                                                    ELSE Strengthen(@, obs.proto)]
                /\ last' = Call(op, obs, thr, NoCoords, "merged", existing, <<>>)
                /\ UNCHANGED threads
           ELSE /\ threads' = [threads EXCEPT
                                  ![t] = [pc |-> "append", op |-> op, obs |-> obs, thr |-> thr,
                                          entry_idx |-> NoMatch]]
                /\ UNCHANGED <<entries, last>>
    /\ UNCHANGED <<spatial_index, frequency_index, wavecube_index, collapse_config, blob, saves, db, log_lock>>

\* entry = _create_new_entry(...); entries.append(entry); entry_idx = len(entries) - 1
ThreadAppend(t) ==
    /\ threads[t].pc = "append"
    /\ LET obs == threads[t].obs
           fundamental == extract_fundamental(obs.spectrum)
           entry == _create_new_entry(entries, obs.proto, obs.spectrum, NoMatch,
                                      obs.modality, obs.octave, fundamental,
                                      extract_harmonics(obs.spectrum, fundamental))
       IN  /\ entries' = Append(entries, entry)
           /\ threads' = [threads EXCEPT ![t].pc = "spatial", ![t].entry_idx = Len(entries')- 1]
    /\ UNCHANGED <<spatial_index, frequency_index, wavecube_index, collapse_config, blob, last,
                   calls, saves, db, log_lock>>

\* spatial_index[grid_pos].append(entry_idx)
ThreadSpatialIndex(t) ==
    /\ threads[t].pc = "spatial"
    /\ spatial_index' =
          DictAppend(spatial_index,
                     GridPos(compute_frequency_position(threads[t].obs.spectrum)),
                     threads[t].entry_idx)
    /\ threads' = [threads EXCEPT ![t].pc = "frequency"]
    /\ UNCHANGED <<entries, frequency_index, wavecube_index, collapse_config, blob, last,
                   calls, saves, db, log_lock>>

\* frequency_index[freq_bin].append(entry_idx); add returns here, and so does
\* add_or_strengthen_proto for a record without coordinate; with one it goes
\* on to voxel_cloud.wavecube_index, which the store does not have
ThreadFrequencyIndex(t) ==
    /\ threads[t].pc = "frequency"
    /\ LET th == threads[t]
           coords == extract_triplanar_coordinates(th.obs.spectrum, th.obs.modality,
                                                   th.obs.octave)
           raises == th.op = "add_or_strengthen_proto" /\ coords # NoCoords
                        /\ ~wavecube_index.present
       IN  /\ frequency_index' =
                 DictAppend(frequency_index,
                            _get_frequency_bin(extract_fundamental(th.obs.spectrum)),
                            th.entry_idx)
           /\ last' = Call(th.op, th.obs, th.thr, NoCoords,
                           IF raises THEN "raised" ELSE "created", th.entry_idx, <<>>)
    /\ threads' = [threads EXCEPT ![t] = IdleThread]
    /\ UNCHANGED <<entries, spatial_index, wavecube_index, collapse_config, blob, calls, saves, db, log_lock>>

\* a query run by a thread that is not inside an add
ThreadFindByFrequency(t, query_freq, max_results) ==
    /\ threads[t].pc = "idle"
    /\ FindByFrequency(query_freq, max_results)

\* ------------------------------------------------ GenesisDB (genesis_db.py)
\* A row is a dict of the schema columns, of which the two keys and one other
\* column are kept.  None is NullIndex in the entry_index column and NullId in
\* the id column.  The key indexes hold references to the row dicts: a
\* reference is the position of the row in _rows.
NullIndex == 0 - 1
NullId == "NULL"

MaxStatements == 4

SchemaColumns == {"entry_index", "id", "modality"}
EntryIndexes == {1}
Ids == {"a"}
Modalities == {"system", "audit"}

\* str(uuid.uuid4()): the n-th identifier drawn, different from every other
UuidNames == <<"uuid-1", "uuid-2", "uuid-3", "uuid-4", "uuid-5">>

\* the literals a statement can give for a column; NULL parses to None
ColumnValues(column) ==
    IF column = "entry_index" THEN EntryIndexes \cup {NullIndex}
    ELSE IF column = "id" THEN Ids \cup {NullId}
    ELSE Modalities

\* dict[key] = val
DictSet(dict, key, val) ==
    [k \in DOMAIN dict \cup {key} |-> IF k = key THEN val ELSE dict[k]]

\* dict.pop(key, None)
DictPop(dict, key) == [k \in DOMAIN dict \ {key} |-> dict[k]]

\* the loop of _rebuild_indexes over rows[i..]: a key that is not an int
\* (not a str) is left out, a later row with the same key replaces the earlier
RECURSIVE RebuildLoop(_, _, _, _)
RebuildLoop(rows, i, by_entry_index, by_id) ==
    IF i > Len(rows)
    THEN [by_entry_index |-> by_entry_index, by_id |-> by_id]
    ELSE RebuildLoop(rows, i + 1,
                     IF rows[i].entry_index # NullIndex
                     THEN DictSet(by_entry_index, rows[i].entry_index, i)
                     ELSE by_entry_index,
                     IF rows[i].id # NullId
                     THEN DictSet(by_id, rows[i].id, i)
                     ELSE by_id)

_rebuild_indexes(rows) ==
    RebuildLoop(rows, 1, [k \in {} |-> 0], [k \in {} |-> 0])

\* WHERE clause: no condition, or one condition  column = value
WhereAll == <<>>
Where(column, value) == <<[column |-> column, operator |-> "=", value |-> value]>>

\* _row_matches(row, conditions) for "=" conditions
_row_matches(row, conditions) ==
    \A n \in 1..Len(conditions) : row[conditions[n].column] = conditions[n].value

\* the full scan: positions of the rows that match, in row order
ScanRows(rows, conditions) ==
    SelectSeq([i \in 1..Len(rows) |-> i], LAMBDA i : _row_matches(rows[i], conditions))

\* _iter_filtered_rows: a single  entry_index = <int>  or  id = <str>
\* condition is answered from the key index, anything else by the scan
_iter_filtered_rows(d, conditions) ==
    IF Len(conditions) = 1 /\ conditions[1].operator = "="
          /\ conditions[1].column = "entry_index" /\ conditions[1].value # NullIndex
    THEN (IF conditions[1].value \in DOMAIN d.by_entry_index
          THEN <<d.by_entry_index[conditions[1].value]>> ELSE <<>>)
    ELSE IF Len(conditions) = 1 /\ conditions[1].operator = "="
               /\ conditions[1].column = "id" /\ conditions[1].value # NullId
    THEN (IF conditions[1].value \in DOMAIN d.by_id
          THEN <<d.by_id[conditions[1].value]>> ELSE <<>>)
    ELSE ScanRows(d.rows, conditions)

\* _ensure_unique_keys: TRUE when it raises ValueError
_ensure_unique_keys(d, row, original_id, original_entry_index) ==
    \/ /\ row.entry_index # NullIndex
       /\ row.entry_index # original_entry_index
       /\ row.entry_index \in DOMAIN d.by_entry_index
    \/ /\ row.id # NullId
       /\ row.id # original_id
       /\ row.id \in DOMAIN d.by_id

NoFile == [exists |-> FALSE, complete |-> FALSE, rows |-> <<>>]

\* what _load reads from a file: no file, no rows
FileRows(file) == IF file.exists THEN file.rows ELSE <<>>

\* the statement just run (or running): its kind, its WHERE column, how it
\* ended, what it returned
DbCall(op, conditions, outcome, error, affected_rows, result) ==
    [op |-> op,
     where |-> IF conditions = <<>> THEN "" ELSE conditions[1].column,
     outcome |-> outcome, error |-> error,
     affected_rows |-> affected_rows, result |-> result]

\* GenesisDB(db_path) where no file exists yet
GenesisDBInit ==
    [rows |-> <<>>, by_entry_index |-> [k \in {} |-> 0], by_id |-> [k \in {} |-> 0],
     file |-> NoFile, tmp |-> NoFile, pc |-> "idle", prev_file |-> NoFile,
     statements |-> 0, uuids |-> 0,
     last |-> DbCall("init", <<>>, "ok", "", 0, <<>>)]

DbUnchanged ==
    UNCHANGED <<entries, spatial_index, frequency_index, wavecube_index,
                collapse_config, blob, last, calls, saves, threads, log_lock>>

\* a statement that ended without _persist
Returned(d, call) ==
    [d EXCEPT !.statements = @ + 1, !.last = call]

\* a statement that goes on into _persist, holding the lock
Persisting(d, call) ==
    [d EXCEPT !.statements = @ + 1, !.last = call, !.pc = "open",
              !.prev_file = d.file]

\* execute_sql("INSERT INTO entries (entry_index, id, modality) VALUES (...)")
Insert(entry_index, id, modality) ==
    /\ db.pc = "idle"
    /\ db.statements < MaxStatements
    /\ LET keys == DOMAIN db.by_entry_index
           type_error == entry_index = NullIndex /\ NullIndex \in keys
           next_index == IF keys = {} THEN 0
                         ELSE (CHOOSE m \in keys : \A k \in keys : k <= m) + 1
           row == [entry_index |-> IF entry_index = NullIndex THEN next_index
                                   ELSE entry_index,
                   id |-> IF id = NullId THEN UuidNames[db.uuids + 1] ELSE id,
                   modality |-> modality]
           position == Len(db.rows) + 1
       IN  IF type_error
           THEN db' = Returned(db, DbCall("insert", <<>>, "raised", "TypeError", 0, <<>>))
           ELSE IF _ensure_unique_keys(db, row, NullId, NullIndex)
           THEN db' = Returned([db EXCEPT !.uuids = IF id = NullId THEN @ + 1 ELSE @],
                               DbCall("insert", <<>>, "raised", "ValueError", 0, <<>>))
           ELSE db' = Persisting(
                        [db EXCEPT !.rows = Append(@, row),
                                   !.by_entry_index = DictSet(@, row.entry_index, position),
                                   !.by_id = DictSet(@, row.id, position),
                                   !.uuids = IF id = NullId THEN @ + 1 ELSE @],
                        DbCall("insert", <<>>, "running", "", 1, <<>>))
    /\ DbUnchanged

\* the body of the for loop of _update for the row at positions[n], and the
\* rows after it; the loop ends at the first row whose new keys are taken
RECURSIVE UpdateLoop(_, _, _, _, _)
UpdateLoop(d, positions, n, column, value) ==
    IF n > Len(positions) THEN [d |-> d, raised |-> FALSE]
    ELSE LET position == positions[n]
             original == d.rows[position]
             row == [original EXCEPT ![column] = value]
             assigned == [d EXCEPT !.rows[position] = row]
         IN  IF _ensure_unique_keys(assigned, row, original.id, original.entry_index)
             THEN [d |-> assigned, raised |-> TRUE]
             ELSE UpdateLoop(
                    [assigned EXCEPT
                        !.by_entry_index =
                            IF original.entry_index # row.entry_index
                            THEN DictSet(DictPop(@, original.entry_index),
                                         row.entry_index, position)
                            ELSE @,
                        !.by_id =
                            IF original.id # row.id
                            THEN DictSet(DictPop(@, original.id), row.id, position)
                            ELSE @],
                    positions, n + 1, column, value)

\* execute_sql("UPDATE entries SET column = value [WHERE ...]")
Update(column, value, conditions) ==
    /\ db.pc = "idle"
    /\ db.statements < MaxStatements
    /\ LET positions == _iter_filtered_rows(db, conditions)
           done == UpdateLoop(db, positions, 1, column, value)
       IN  IF done.raised
           THEN db' = Returned(done.d,
                               DbCall("update", conditions, "raised", "ValueError", 0, <<>>))
           ELSE IF Len(positions) = 0
           THEN db' = Returned(db, DbCall("update", conditions, "ok", "", 0, <<>>))
           ELSE db' = Persisting(done.d,
                                 DbCall("update", conditions, "running", "",
                                        Len(positions), <<>>))
    /\ DbUnchanged

\* execute_sql("DELETE FROM entries [WHERE ...]")
Delete(conditions) ==
    /\ db.pc = "idle"
    /\ db.statements < MaxStatements
    /\ LET remaining == SelectSeq(db.rows, LAMBDA row : ~_row_matches(row, conditions))
           deleted == Len(db.rows) - Len(remaining)
           rebuilt == _rebuild_indexes(remaining)
       IN  IF deleted = 0
           THEN db' = Returned(db, DbCall("delete", conditions, "ok", "", 0, <<>>))
           ELSE db' = Persisting(
                        [db EXCEPT !.rows = remaining,
                                   !.by_entry_index = rebuilt.by_entry_index,
                                   !.by_id = rebuilt.by_id],
                        DbCall("delete", conditions, "running", "", deleted, <<>>))
    /\ DbUnchanged

\* execute_sql("SELECT * FROM entries [WHERE ...]")
Select(conditions) ==
    /\ db.pc = "idle"
    /\ db.statements < MaxStatements
    /\ LET positions == _iter_filtered_rows(db, conditions)
       IN  db' = Returned(db, DbCall("select", conditions, "ok", "", 0,
                                     [n \in 1..Len(positions) |-> db.rows[positions[n]]]))
    /\ DbUnchanged

\* _persist, first step: open(tmp_path, "w") creates or truncates the .tmp file
PersistOpen ==
    /\ db.pc = "open"
    /\ db' = [db EXCEPT !.tmp = [exists |-> TRUE, complete |-> FALSE, rows |-> <<>>],
                        !.pc = "dump"]
    /\ DbUnchanged

\* _persist, second step: json.dump(self._rows, handle) and the close of the
\* with block leave the whole list in the .tmp file
PersistDump ==
    /\ db.pc = "dump"
    /\ db' = [db EXCEPT !.tmp = [exists |-> TRUE, complete |-> TRUE, rows |-> db.rows],
                        !.pc = "replace"]
    /\ DbUnchanged

\* _persist, last step: os.replace(tmp_path, db_path); the statement returns
PersistReplace ==
    /\ db.pc = "replace"
    /\ db' = [db EXCEPT !.file = db.tmp, !.tmp = NoFile, !.pc = "idle",
                        !.last.outcome = "ok"]
    /\ DbUnchanged

\* GenesisDB(db_path) on the same path: _load reads the file if there is one
\* and rebuilds both indexes
Reopen ==
    /\ db.pc = "idle"
    /\ LET rows == FileRows(db.file)
           rebuilt == _rebuild_indexes(rows)
       IN  db' = [db EXCEPT !.rows = rows,
                            !.by_entry_index = rebuilt.by_entry_index,
                            !.by_id = rebuilt.by_id,
                            !.last = DbCall("init", <<>>, "ok", "", 0, <<>>)]
    /\ DbUnchanged

NextDB ==
    \/ \E entry_index \in ColumnValues("entry_index"), id \in ColumnValues("id") :
          Insert(entry_index, id, "system")
    \/ \E column \in SchemaColumns : \E value \in ColumnValues(column) :
          \/ Update(column, value, WhereAll)
          \/ \E c \in SchemaColumns : \E v \in ColumnValues(c) :
                Update(column, value, Where(c, v))
    \/ Delete(WhereAll)
    \/ \E c \in SchemaColumns : \E v \in ColumnValues(c) : Delete(Where(c, v))
    \/ Select(WhereAll)
    \/ \E c \in SchemaColumns : \E v \in ColumnValues(c) : Select(Where(c, v))
    \/ PersistOpen
    \/ PersistDump
    \/ PersistReplace
    \/ Reopen

\* ------------------------------------------ LogStore._interprocess_lock
\* retries: failed attempts after which the wait is given up
LockRetries == 10

\* the guarded blocks: the bodies of the with statements of _load and _persist
LockCallers == {"_load", "_persist"}

\* before any use: no lock file is open, nobody holds the lock
LogLockInit ==
    [pc |-> "idle", holder |-> "none", lock_file |-> "closed", attempts |-> 0,
     tries |-> 0, caller |-> "", outcome |-> "", uses |-> 0]

LockUnchanged ==
    UNCHANGED <<entries, spatial_index, frequency_index, wavecube_index,
                collapse_config, blob, last, calls, saves, threads, db>>

\* entering the with statement: the lock file is opened and the attempts are
\* counted from 0.  tries counts the flock calls of this use.
LockEnter(caller) ==
    /\ log_lock.pc = "idle"
    /\ log_lock.uses < MaxLockUses
    /\ log_lock' = [log_lock EXCEPT !.pc = "trying", !.lock_file = "open",
                                    !.attempts = 0, !.tries = 0, !.caller = caller,
                                    !.outcome = "", !.uses = @ + 1]
    /\ LockUnchanged

\* flock(LOCK_EX | LOCK_NB) raises OSError while another open file
\* description holds the lock
flock_fails(l) == l.holder # "none"

\* the give-up test of the except branch
TimedOut(attempts) == attempts > LockRetries

\* one pass of the while loop: the lock is taken and the loop left, or the
\* failure is counted and the caller gives up (closing the file and raising
\* TimeoutError) or sleeps and goes round again
LockAttempt ==
    /\ log_lock.pc = "trying"
    /\ IF ~flock_fails(log_lock)
       THEN log_lock' = [log_lock EXCEPT !.holder = "self", !.pc = "holding",
                                         !.tries = @ + 1]
       ELSE IF TimedOut(log_lock.attempts + 1)
       THEN log_lock' = [log_lock EXCEPT !.attempts = @ + 1, !.tries = @ + 1,
                                         !.lock_file = "closed", !.pc = "idle",
                                         !.outcome = "TimeoutError"]
       ELSE log_lock' = [log_lock EXCEPT !.attempts = @ + 1, !.tries = @ + 1]
    /\ LockUnchanged

\* an exit that releases only when the block returned
ExitBlock_NoFinally(l, outcome) ==
    IF outcome = "raised"
    THEN [l EXCEPT !.pc = "idle", !.outcome = outcome]
    ELSE [l EXCEPT !.holder = "none", !.lock_file = "closed", !.pc = "idle",
                   !.outcome = outcome]

\* the finally clause after the yield: the lock is released and the file
\* closed however the block ended
ExitBlock(l, outcome) ==
    [l EXCEPT !.holder = "none", !.lock_file = "closed", !.pc = "idle",
              !.outcome = outcome]

\* the guarded block runs to its end
BlockReturns ==
    /\ log_lock.pc = "holding"
    /\ log_lock' = ExitBlock(log_lock, "ok")
    /\ LockUnchanged

\* the guarded block raises (json.load or the list test in _load, the write
\* or os.replace in _persist)
BlockRaises ==
    /\ log_lock.pc = "holding"
    /\ log_lock' = ExitBlock(log_lock, "raised")
    /\ LockUnchanged

\* another process takes the free lock
OtherAcquires ==
    /\ log_lock.holder = "none"
    /\ log_lock' = [log_lock EXCEPT !.holder = "other"]
    /\ LockUnchanged

\* the other process releases it
OtherReleases ==
    /\ log_lock.holder = "other"
    /\ log_lock' = [log_lock EXCEPT !.holder = "none"]
    /\ LockUnchanged

NextLock ==
    \/ \E caller \in LockCallers : LockEnter(caller)
    \/ LockAttempt
    \/ BlockReturns
    \/ BlockRaises
    \/ OtherAcquires
    \/ OtherReleases

Init ==
    /\ entries = <<>>
    /\ spatial_index = EmptyDict
    /\ frequency_index = EmptyDict
    /\ wavecube_index = [present |-> FALSE, map |-> EmptyDict]
    /\ \E t \in CosineThresholds :
          collapse_config = [harmonic_tolerance |-> 5, cosine_threshold |-> t,
                             octave_tolerance |-> 0, enable |-> TRUE]
    /\ blob = [present |-> FALSE, entries |-> <<>>, spatial_index |-> EmptyDict,
               frequency_index |-> EmptyDict, collapse_config |-> DefaultCollapseConfig,
               saved_store |-> <<>>]
    /\ last = Call("init", NoObs, <<0, 1>>, NoCoords, "ok", NoMatch, <<>>)
    /\ calls = 0
    /\ saves = 0
    /\ threads = [t \in Threads |-> IdleThread]
    /\ db = GenesisDBInit
    /\ log_lock = LogLockInit

Next ==
    \/ \E obs \in Observations, thr \in SimilarityThresholds, coords \in CoordArgs :
          AddOrStrengthenProto(obs, thr, coords)
    \/ \E obs \in Observations : VoxelCloudAdd(obs)

Spec == Init /\ [][Next]_vars

\* ---------------------------------- the store under every operation
StoreObservations ==
    { [proto |-> <<1, 0>>, spectrum |-> 1, octave |-> 0, modality |-> "text"],
      [proto |-> <<1, 1>>, spectrum |-> 1, octave |-> 0, modality |-> "text"],
      [proto |-> <<1, 0>>, spectrum |-> 2, octave |-> 0, modality |-> "image"],
      [proto |-> <<2, 0>>, spectrum |-> 2, octave |-> 0, modality |-> "image"] }

LinkThresholds == {10, 5}

ViewportRadius == 50

\* the store as constructed with the default collapse_config
InitStore == Init /\ collapse_config.cosine_threshold = <<85, 100>>

NextStore ==
    \/ \E obs \in StoreObservations, coords \in {NoCoords, <<0, 0, 0, 0>>} :
          calls < MaxStoreCalls /\ AddOrStrengthenProto(obs, <<9, 10>>, coords)
    \/ \E obs \in StoreObservations : calls < MaxStoreCalls /\ VoxelCloudAdd(obs)
    \/ \E k \in 1..MaxQueryResults, m \in {"cosine", "l2"} :
          QueryByProtoSimilarity(<<1, 0>>, k, m)
    \/ \E s \in Spectra : FindByFrequency(s, MaxQueryResults)
    \/ \E q \in {NoCoords, <<1, 0>>} : QueryViewport(1, ViewportRadius, MaxQueryResults, q)
    \/ \E band \in {0, 3} : QueryByFrequencyBand(band, MaxQueryResults)
    \/ \E cam \in Cameras : QueryByRaycast(cam, MaxQueryResults)
    \/ \E off \in 0..(MaxStoreCalls - 1) : FindCrossModalLinks(off)
    \/ \E coords \in {NoCoords, <<0, 0, 0, 0>>} :
          QueryByOctave(<<1, 0>>, 0, MaxQueryResults, coords)
    \/ \E t \in LinkThresholds : LinkCrossModalProtos(t)
    \/ Save
    \/ Load({})

SpecStore == InitStore /\ [][NextStore]_vars

SpecDB == InitStore /\ [][NextDB]_vars

\* the caller of the lock keeps running: a pass of the loop that can be made
\* is made
SpecLock == InitStore /\ [][NextLock]_vars /\ WF_vars(LockAttempt)

\* ---------------------------------------------- coordinate-aware matching
\* a cloud as VoxelCloud() builds it, or one that carries the optional
\* coordinate-hash index: a wavecube_index attribute, empty before the first add
InitSpatial ==
    /\ entries = <<>>
    /\ spatial_index = EmptyDict
    /\ frequency_index = EmptyDict
    /\ \E present \in BOOLEAN : wavecube_index = [present |-> present, map |-> EmptyDict]
    /\ collapse_config = DefaultCollapseConfig
    /\ blob = [present |-> FALSE, entries |-> <<>>, spatial_index |-> EmptyDict,
               frequency_index |-> EmptyDict, collapse_config |-> DefaultCollapseConfig,
               saved_store |-> <<>>]
    /\ last = Call("init", NoObs, <<0, 1>>, NoCoords, "ok", NoMatch, <<>>)
    /\ calls = 0
    /\ saves = 0
    /\ threads = [t \in Threads |-> IdleThread]
    /\ db = GenesisDBInit
    /\ log_lock = LogLockInit

SpatialObservations ==
    { [proto |-> <<1, 0>>, spectrum |-> 2, octave |-> 0, modality |-> "image"],
      [proto |-> <<1, 0>>, spectrum |-> 2, octave |-> 1, modality |-> "image"],
      [proto |-> <<0, 1>>, spectrum |-> 1, octave |-> 1, modality |-> "text"] }

\* wavecube_coords arguments one unit apart along z
SpatialCoords == {<<1, 2, 3, 0>>, <<1, 2, 4, 0>>, <<1, 2, 5, 0>>}

\* spatial_tolerance arguments: the default 1.0, or None
SpatialTolerances == {DefaultSpatialTolerance, NoMatch}

NextSpatial ==
    \/ \E obs \in SpatialObservations, coords \in SpatialCoords \cup {NoCoords},
          spatial_tolerance \in SpatialTolerances :
          AddOrStrengthenProtoWithin(obs, <<9, 10>>, coords, spatial_tolerance)
    \/ \E obs \in SpatialObservations : VoxelCloudAdd(obs)

SpecSpatial == InitSpatial /\ [][NextSpatial]_vars

\* ------------------------------------- the store under two threads
NextThreads ==
    \/ \E t \in Threads, op \in AddOps, obs \in StoreObservations :
          ThreadFindMatch(t, op, obs, <<9, 10>>)
    \/ \E t \in Threads : ThreadAppend(t)
    \/ \E t \in Threads : ThreadSpatialIndex(t)
    \/ \E t \in Threads : ThreadFrequencyIndex(t)
    \/ \E t \in Threads, s \in Spectra : ThreadFindByFrequency(t, s, MaxQueryResults)

SpecThreads == InitStore /\ [][NextThreads]_vars

\* ------------------------- the band query on stores built by VoxelCloud.add
BandArgs == {0, 1, 2, 3}

NextBands ==
    \/ \E obs \in StoreObservations : VoxelCloudAdd(obs)
    \/ \E band \in BandArgs, k \in 1..MaxQueryResults : QueryByFrequencyBand(band, k)

SpecBands == InitStore /\ [][NextBands]_vars

\* ------------------- the linker on stores built by VoxelCloud.add
\* observations of three modalities; one carries a caller-chosen id
LinkObservations ==
    { [proto |-> <<1, 0>>, spectrum |-> 1, octave |-> 0, modality |-> "text"],
      [proto |-> <<1, 1>>, spectrum |-> 1, octave |-> 0, modality |-> "text"],
      [proto |-> <<1, 0>>, spectrum |-> 2, octave |-> 0, modality |-> "image"],
      [proto |-> <<1, 1>>, spectrum |-> 2, octave |-> 0, modality |-> "image", id |-> 0],
      [proto |-> <<0, 1>>, spectrum |-> 2, octave |-> 0, modality |-> "video"] }

NextLinks ==
    \/ \E obs \in LinkObservations : VoxelCloudAdd(obs)
    \/ \E t \in LinkThresholds : LinkCrossModalProtos(t)
    \/ \E off \in 0..(MaxCalls - 1) : FindCrossModalLinks(off)

SpecLinks == InitStore /\ [][NextLinks]_vars

\* ------------- adds with and without tracking, the linker and the queries
TrackingObservations ==
    { [proto |-> <<1, 0>>, spectrum |-> 1, octave |-> 0, modality |-> "text"],
      [proto |-> <<1, 1>>, spectrum |-> 1, octave |-> 0, modality |-> "text"],
      [proto |-> <<1, 0>>, spectrum |-> 2, octave |-> 0, modality |-> "image"] }

NextTracking ==
    \/ \E obs \in TrackingObservations : calls < MaxTrackingCalls /\ VoxelCloudAdd(obs)
    \/ \E obs \in TrackingObservations :
          calls < MaxTrackingCalls /\ AddOrStrengthenProto(obs, <<9, 10>>, NoCoords)
    \/ \E obs \in TrackingObservations, tracked \in Trackings :
          calls < MaxTrackingCalls /\ AddWithTemporalTracking(obs, tracked)
    \/ LinkCrossModalProtos(10)
    \/ \E off \in 0..(MaxTrackingCalls - 1) : FindCrossModalLinks(off)
    \/ QueryByProtoSimilarity(<<1, 0>>, MaxQueryResults, "cosine")
    \/ FindByFrequency(1, MaxQueryResults)
    \/ QueryViewport(1, ViewportRadius, MaxQueryResults, NoCoords)
    \/ QueryByFrequencyBand(0, MaxQueryResults)
    \/ \E cam \in Cameras : QueryByRaycast(cam, MaxQueryResults)
    \/ QueryByOctave(<<1, 0>>, 0, MaxQueryResults, NoCoords)

SpecTracking == InitStore /\ [][NextTracking]_vars

\* ---------------- snapshots of stores built by VoxelCloud.add, loaded back
\* a frequency index listing an offset past the end of the records: what a
\* load that raised at data['spatial_index'] leaves behind
TornStore ==
    \E k \in DOMAIN frequency_index :
       \E n \in 1..Len(frequency_index[k]) : frequency_index[k][n] >= Len(entries)

\* the caller of a load that raised does not go on adding to the torn store
\* (the add would index entries out of range)
NextSnapshots ==
    \/ ~TornStore /\ \E obs \in StoreObservations : VoxelCloudAdd(obs)
    \/ Save
    \/ \E absent_keys \in SUBSET OptionalKeys : Load(absent_keys)
    \/ \E key \in RequiredKeys, damage \in Damages : LoadDamaged(key, damage)

SpecSnapshots == Init /\ [][NextSnapshots]_vars

\* ------------------------------------------------------------ properties
\* the step just taken appended a record (an add that raised after the
\* append included)
Appended(l) == l.op \in AddOps /\ l.outcome \in {"created", "raised"}

\* largest threshold any call of the model is made with
MaxThreshold == <<9, 10>>

\* raw guarded cosine of two stored fingerprints reaches threshold t
CosineReaches(fp1, fp2, t) ==
    SimCmp(GuardedCosine(fp1, fp2, FALSE), SimConst(t[1], t[2])) >= 0

Offsets == 0..(Len(entries) - 1)

RECURSIVE SeqCount(_, _)
SeqCount(sq, x) ==
    IF sq = <<>> THEN 0
    ELSE (IF Head(sq) = x THEN 1 ELSE 0) + SeqCount(Tail(sq), x)

\* number of times offset off is listed in dict, over all keys
DictCount(dict, off) ==
    LET keys == DOMAIN dict
        RECURSIVE Sum(_)
        Sum(ks) == IF ks = {} THEN 0
                   ELSE LET k == CHOOSE x \in ks : TRUE
                        IN  SeqCount(dict[k], off) + Sum(ks \ {k})
    IN  Sum(keys)

DictOffsets(dict) == UNION {{dict[k][n] : n \in 1..Len(dict[k])} : k \in DOMAIN dict}

\* C1 (as claimed): no two same-octave records of the store have fingerprint
\* cosine similarity at or above the collapse threshold the calls were made with.
C1_NoTwoRecordsWithinThreshold ==
    \A i \in 1..Len(entries) : \A j \in 1..Len(entries) :
        (i < j /\ entries[i].octave = entries[j].octave)
            => ~CosineReaches(entries[i].proto_identity, entries[j].proto_identity,
                              MaxThreshold)

\* C1 (amended): when add_or_strengthen_proto is called without a coordinate and
\* appends a record, every same-octave record already in the store has a
\* compute_proto_similarity to the incoming fingerprint strictly below the
\* similarity_threshold of that call.
C1_NewRecordBelowThreshold ==
    [][(Appended(last') /\ last'.op = "add_or_strengthen_proto" /\ last'.coords = NoCoords)
         => \A i \in 1..Len(entries) :
               entries[i].octave = last'.octave
                 => SimCmp(compute_proto_similarity(Fp(last'.proto), entries[i].proto_identity),
                           SimConst(last'.thr[1], last'.thr[2])) < 0]_vars

\* a coordinate-free add_or_strengthen_proto appended a record next to an
\* older record of its octave
C1_Witness ==
    /\ Appended(last) /\ last.op = "add_or_strengthen_proto" /\ last.coords = NoCoords
    /\ \E i \in 1..Len(entries) : i # last.idx + 1 /\ entries[i].octave = last.octave

\* C2 (as claimed): an add call that raises leaves entries, spatial index,
\* frequency index and coordinate-hash index exactly as before the call.
C2_RaiseLeavesStoreUnchanged ==
    [][(last'.op \in AddOps /\ last'.outcome = "raised")
         => <<entries, spatial_index, frequency_index, wavecube_index>>'
              = <<entries, spatial_index, frequency_index, wavecube_index>>]_vars

\* C3 (as claimed): every offset below len(entries) is listed exactly once in
\* the spatial index under its grid cell, exactly once in the frequency index
\* under its bin, and in the coordinate-hash index iff the record has a
\* coordinate; no index lists an offset outside that range.
C3_IndexesMatchRecords ==
    /\ \A off \in Offsets :
          LET e == entries[off + 1]
          IN  /\ DictCount(spatial_index, off) = 1
              /\ SeqCount(DictGet(spatial_index, GridPos(e.position)), off) = 1
              /\ DictCount(frequency_index, off) = 1
              /\ SeqCount(DictGet(frequency_index, _get_frequency_bin(e.fundamental_freq)),
                          off) = 1
              /\ (e.wavecube_coords # NoCoords)
                    <=> (wavecube_index.present /\ off \in DictOffsets(wavecube_index.map))
    /\ DictOffsets(spatial_index) \subseteq Offsets
    /\ DictOffsets(frequency_index) \subseteq Offsets
    /\ DictOffsets(wavecube_index.map) \subseteq Offsets

\* C4 (as claimed): an add of a fingerprint at octave o2 changes no record
\* whose octave differs from o2.
C4_OctaveIsolation ==
    [][last'.op \in AddOps
         => \A i \in 1..Len(entries) :
               entries[i].octave # last'.octave => entries'[i] = entries[i]]_vars

\* the call repeats the call before it, which had appended record last.idx
RepeatsCreatingCall ==
    /\ Appended(last)
    /\ last'.op = last.op /\ last'.proto = last.proto /\ last'.spectrum = last.spectrum
    /\ last'.octave = last.octave /\ last'.modality = last.modality
    /\ last'.thr = last.thr /\ last'.coords = last.coords
    /\ calls' = calls + 1

RepeatMergedIntoIt ==
    /\ last'.outcome = "merged" /\ last'.idx = last.idx
    /\ Len(entries') = Len(entries)
    /\ entries'[last.idx + 1].resonance_strength = 2
    /\ entries'[last.idx + 1].proto_identity = Fp(last.proto)

\* C5 (as claimed): adding the same (fingerprint, spectrum, octave) twice yields
\* one record for it, with resonance 2 and the fingerprint that was added,
\* for every fingerprint, a zero-norm one included.
C5_DuplicateIdempotent ==
    [][RepeatsCreatingCall => RepeatMergedIntoIt]_vars

\* C5 (amended): the same, for every fingerprint of non-zero norm.
C5_DuplicateIdempotentNonZero ==
    [][(RepeatsCreatingCall /\ Dot(last.proto, last.proto) # 0) => RepeatMergedIntoIt]_vars

\* a record that absorbed the same non-zero fingerprint twice
C5_Witness ==
    /\ last.op \in AddOps /\ last.outcome = "merged"
    /\ Dot(last.proto, last.proto) # 0
    /\ entries[last.idx + 1].resonance_strength = 2
    /\ entries[last.idx + 1].obs_sum = <<2 * last.proto[1], 2 * last.proto[2]>>
    /\ entries[last.idx + 1].proto_identity = Fp(last.proto)

Positive(es) == \A i \in 1..Len(es) : es[i].resonance_strength >= 1

\* the step keeps every record in place, adds 1 to the resonance of the record
\* an add merged into, leaves every other resonance alone, and starts new
\* records at 1
ResonanceStep ==
    /\ Len(entries') >= Len(entries)
    /\ \A i \in 1..Len(entries) :
          i <= Len(entries') =>
            entries'[i].resonance_strength
              = entries[i].resonance_strength
                  + (IF last'.op \in AddOps /\ last'.outcome = "merged" /\ last'.idx = i - 1
                     THEN 1 ELSE 0)
    /\ \A i \in (Len(entries) + 1)..Len(entries') : entries'[i].resonance_strength = 1

\* C6 (as claimed): resonance is a positive integer, 1 at creation, plus exactly
\* 1 per merge into the record, and no operation (adds, queries, link_all, load)
\* decreases or otherwise changes it.
C6_ResonanceOnlyGrowsByMerges ==
    [][ResonanceStep /\ Positive(entries')]_vars

\* C6 (amended): the same for every add, query, link_all and save; a load
\* replaces the records by those of the snapshot, each with the positive
\* resonance it had when the snapshot was written.
C6_ResonanceOnlyGrowsByMergesOrReload ==
    [][/\ Positive(entries')
       /\ IF last'.op = "load"
          THEN entries' = entries \/ (blob.present /\ entries' = blob.entries)
          ELSE ResonanceStep]_vars

\* a record strengthened by a merge, seen after the linker ran
C6_Witness ==
    /\ last.op = "link_cross_modal_protos"
    /\ \E i \in 1..Len(entries) : entries[i].resonance_strength = 2

\* C7: the fingerprint of a record that absorbed x1..xN is (x1 + ... + xN) / N.
C7_FingerprintIsMean ==
    \A i \in 1..Len(entries) :
        LET e == entries[i]
        IN  /\ e.proto_identity.v[1] * e.resonance_strength = e.obs_sum[1] * e.proto_identity.d
            /\ e.proto_identity.v[2] * e.resonance_strength = e.obs_sum[2] * e.proto_identity.d

\* a record that absorbed three observations which are not all equal
C7_Witness ==
    /\ last.op \in AddOps /\ last.outcome = "merged"
    /\ entries[last.idx + 1].resonance_strength = 3
    /\ entries[last.idx + 1].obs_sum # <<3 * last.proto[1], 3 * last.proto[2]>>

\* some same-octave record reaches the call's similarity_threshold
SomeRecordReaches(es, l) ==
    \E i \in 1..Len(es) :
        /\ es[i].octave = l.octave
        /\ SimCmp(compute_proto_similarity(Fp(l.proto), es[i].proto_identity),
                  SimConst(l.thr[1], l.thr[2])) >= 0

\* some frequency candidate reaches cosine_threshold
SomeCandidateReaches(es, fidx, config, l) ==
    LET fundamental == extract_fundamental(l.spectrum)
        matches == find_similar_by_frequency(es, fidx, config, fundamental,
                                             extract_harmonics(l.spectrum, fundamental))
    IN  \E n \in 1..Len(matches) :
            SimCmp(compute_cosine_similarity(Fp(l.proto), es[matches[n] + 1].proto_identity),
                   SimConst(config.cosine_threshold[1], config.cosine_threshold[2])) >= 0

C9_MergeChangesFingerprintAndResonanceOnly ==
    [][(last'.op \in AddOps /\ last'.outcome = "merged")
         => /\ Len(entries') = Len(entries)
            /\ \A j \in 1..Len(entries) :
                  IF j # last'.idx + 1 THEN entries'[j] = entries[j]
                  ELSE entries'[j] =
                         [entries[j] EXCEPT
                             !.proto_identity = entries'[j].proto_identity,
                             !.resonance_strength = entries'[j].resonance_strength,
                             !.obs_sum = entries'[j].obs_sum]
            /\ UNCHANGED <<spatial_index, frequency_index, wavecube_index>>]_vars

\* a merge moved the fingerprint away from level 0 of the pyramid
C9_Witness ==
    /\ last.op \in AddOps /\ last.outcome = "merged"
    /\ entries[last.idx + 1].proto_identity # entries[last.idx + 1].mip_levels[1]
    /\ Len(entries) >= 2

\* C10: no query changes entries, any record or any index, a raising query
\* included.
C10_QueriesReadOnly ==
    [][last'.op \in QueryOps
         => UNCHANGED <<entries, spatial_index, frequency_index, wavecube_index,
                        collapse_config>>]_vars

\* a query raised on a store of two records
C10_Witness ==
    /\ last.op \in QueryOps /\ last.outcome = "raised"
    /\ Len(entries) = 2

\* every record is listed once in the spatial and in the frequency index, and
\* the two indexes list nothing else
RecordsIndexed(es, sidx, fidx) ==
    /\ \A off \in 0..(Len(es) - 1) :
          DictCount(sidx, off) = 1 /\ DictCount(fidx, off) = 1
    /\ DictOffsets(sidx) \cup DictOffsets(fidx) \subseteq 0..(Len(es) - 1)

\* C11 (as claimed): a record and its index entries appear as one atomic step:
\* whenever a thread runs a query or starts an add while another thread is
\* inside an add, the store it reads has every record of entries in the spatial
\* and the frequency index, and no index entry without its record.
C11_RecordAndIndexesAppearTogether ==
    [][(\E t \in Threads : threads[t].pc = "idle"
                              /\ (threads'[t].pc = "append" \/ last' # last))
         => RecordsIndexed(entries, spatial_index, frequency_index)]_vars

\* the score query_by_proto_similarity gives record i is larger than the one
\* it gives record j
ScoreGreater(es, query_proto, similarity_metric, i, j) ==
    IF similarity_metric = "cosine"
    THEN SimCmp(compute_cosine_similarity(Fp(query_proto), es[i].proto_identity),
                compute_cosine_similarity(Fp(query_proto), es[j].proto_identity)) > 0
    ELSE L2Greater(es, query_proto, i, j)

\* the exact cosine (no 1e-8 guard) of the query and record i is at least
\* that of the query and record j
ExactCosineAtLeast(es, query_proto, i, j) ==
    LET si == compute_cosine_similarity(Fp(query_proto), es[i].proto_identity)
        sj == compute_cosine_similarity(Fp(query_proto), es[j].proto_identity)
    IN  SqCmp(si.dot, si.nn, sj.dot, sj.nn) >= 0

\* C12 (as claimed): query_by_proto_similarity returns at most k records with
\* strictly descending scores, and a stored record whose fingerprint equals the
\* query attains the maximum score over the store and is returned first.
C12_RankedStrictlySelfFirst ==
    [][last'.op = "query_by_proto_similarity"
         => LET r == last'.result
                q == last'.proto
                m == last'.similarity_metric
            IN  /\ Len(r) <= last'.max_results
                /\ \A n \in 1..(Len(r) - 1) :
                      ScoreGreater(entries, q, m, r[n] + 1, r[n + 1] + 1)
                /\ \A i \in 1..Len(entries) :
                      entries[i].proto_identity = Fp(q)
                        => /\ \A j \in 1..Len(entries) : ~ScoreGreater(entries, q, m, j, i)
                           /\ r[1] = i - 1]_vars

\* C12 (amended): query_by_proto_similarity returns min(k, n) records of the n
\* stored, scores never increasing and equal scores in insertion order; the
\* first record returned attains the maximum score of the store; under L2 a
\* stored record whose fingerprint equals the query attains that maximum, and
\* under cosine it attains the maximum of the exact cosine.
C12_RankedDescendingTiesByInsertion ==
    [][last'.op = "query_by_proto_similarity"
         => LET r == last'.result
                q == last'.proto
                m == last'.similarity_metric
            IN  /\ Len(r) = Min(last'.max_results, Len(entries))
                /\ \A n \in 1..(Len(r) - 1) :
                      \/ ScoreGreater(entries, q, m, r[n] + 1, r[n + 1] + 1)
                      \/ /\ ~ScoreGreater(entries, q, m, r[n + 1] + 1, r[n] + 1)
                         /\ r[n] < r[n + 1]
                /\ Len(r) > 0
                     => \A j \in 1..Len(entries) : ~ScoreGreater(entries, q, m, j, r[1] + 1)
                /\ \A i \in 1..Len(entries) :
                      entries[i].proto_identity = Fp(q)
                        => \A j \in 1..Len(entries) :
                              IF m = "cosine" THEN ExactCosineAtLeast(entries, q, i, j)
                              ELSE ~ScoreGreater(entries, q, m, j, i)]_vars

\* the record equal to the query was stored second and is returned first,
\* ahead of a record of lower score
C12_Witness ==
    /\ last.op = "query_by_proto_similarity" /\ last.max_results = 2
    /\ Len(last.result) = 2 /\ last.result[1] = 1
    /\ entries[2].proto_identity = Fp(last.proto)
    /\ ScoreGreater(entries, last.proto, last.similarity_metric, 2, 1)

\* offsets of the records tagged with the band
BandOffsets(es, band) == {off \in 0..(Len(es) - 1) : es[off + 1].frequency_band = band}

SeqRange(sq) == {sq[n] : n \in 1..Len(sq)}

\* C13: for band in {0,1,2} query_by_frequency_band(band, k) returns records
\* of that band only, each once: all of them when there are at most k, otherwise
\* k of them such that no record left out has a higher resonance than one
\* returned; the result is ordered by resonance descending.
C13_BandQueryExactAndRanked ==
    [][(last'.op = "query_by_frequency_band" /\ last'.band \in {0, 1, 2})
         => LET r == last'.result
                inband == BandOffsets(entries, last'.band)
                res(off) == entries[off + 1].resonance_strength
            IN  /\ last'.outcome = "ok"
                /\ SeqRange(r) \subseteq inband
                /\ Cardinality(SeqRange(r)) = Len(r)
                /\ Len(r) = Min(last'.max_results, Cardinality(inband))
                /\ \A n \in 1..(Len(r) - 1) : res(r[n]) >= res(r[n + 1])
                /\ \A off \in inband \ SeqRange(r) :
                      \A n \in 1..Len(r) : res(r[n]) >= res(off)]_vars

\* the band holds two records, the one of higher resonance stored last, and
\* the query for one record returned that one
C13_Witness ==
    /\ last.op = "query_by_frequency_band" /\ last.outcome = "ok"
    /\ last.max_results = 1 /\ last.result = <<1>>
    /\ Cardinality(BandOffsets(entries, last.band)) = 2
    /\ 0 \in BandOffsets(entries, last.band)
    /\ entries[2].resonance_strength > entries[1].resonance_strength

\* C14: query_by_frequency_band with a band outside {0,1,2} raises ValueError
\* naming the band and returns nothing, whatever the store contains, and
\* leaves the store unchanged.
C14_UnknownBandRaises ==
    [][(last'.op = "query_by_frequency_band" /\ last'.band \notin {0, 1, 2})
         => /\ last'.outcome = "raised" /\ last'.error = "ValueError"
            /\ last'.band \in BandArgs \ {0, 1, 2}
            /\ UNCHANGED <<entries, spatial_index, frequency_index, wavecube_index,
                           collapse_config>>]_vars

\* the query raised on a store that holds records
C14_Witness ==
    /\ last.op = "query_by_frequency_band" /\ last.outcome = "raised"
    /\ last.error = "ValueError" /\ last.band = 3
    /\ Len(entries) = 3

\* depth of a position along the camera's forward vector
DepthAlongForward(cam, pos) ==
    (pos[1] - cam.position[1]) * cam.forward[1] + (pos[2] - cam.position[2]) * cam.forward[2]
        + (pos[3] - cam.position[3]) * cam.forward[3]

\* the angle between forward and the direction to pos is at most half the FOV
WithinHalfFov(cam, pos) ==
    /\ DepthAlongForward(cam, pos) >= 0
    /\ DepthAlongForward(cam, pos) * DepthAlongForward(cam, pos) * cam.cos2[2]
          >= cam.cos2[1] * PosDistSq(pos, cam.position)

\* C15 (as claimed): query_by_raycast never returns a record whose depth along
\* the camera forward vector is below near - r or above far + r, a record at
\* the camera position included, nor one more than half the FOV off the
\* forward vector.
C15_RaycastWithinDepthAndFov ==
    [][last'.op = "query_by_raycast"
         => \A n \in 1..Len(last'.result) :
               LET pos == entries[last'.result[n] + 1].position
                   cam == last'.camera
               IN  /\ DepthAlongForward(cam, pos) >= cam.near - RaycastVoxelSize
                   /\ DepthAlongForward(cam, pos) <= cam.far + RaycastVoxelSize
                   /\ WithinHalfFov(cam, pos)]_vars

\* record j's identifier is in record i's link set
Lists(es, i, j) == InSeq(es[j].id, es[i].cross_modal_links)

\* the (text, other modality) pairs of the store, as index pairs
TextOtherPairs(es) ==
    {<<i, j>> \in (1..Len(es)) \X (1..Len(es)) :
        es[i].modality = "text" /\ es[j].modality # "text"}

FreqDiff(es, i, j) == Abs(es[i].fundamental_freq - es[j].fundamental_freq)

\* C16 (as claimed): after link_cross_modal_protos(t), every text record a and
\* every record b of another modality with |fundamental(a) - fundamental(b)| < t
\* list each other's identifier, and a pair with difference >= t that was
\* unlinked before the call is still unlinked.
C16_LinksAllCoherentPairs ==
    [][last'.op = "link_cross_modal_protos"
         => \A pr \in TextOtherPairs(entries) :
               LET i == pr[1]
                   j == pr[2]
               IN  IF FreqDiff(entries, i, j) < last'.phase_coherence_threshold
                   THEN Lists(entries', i, j) /\ Lists(entries', j, i)
                   ELSE (~Lists(entries, i, j) /\ ~Lists(entries, j, i))
                           => (~Lists(entries', i, j) /\ ~Lists(entries', j, i))]_vars

RECURSIVE LinkSetSizes(_)
LinkSetSizes(es) ==
    IF es = <<>> THEN 0 ELSE Len(Head(es).cross_modal_links) + LinkSetSizes(Tail(es))

\* the pairs that list each other
LinkedPairs(es) == {pr \in TextOtherPairs(es) : Lists(es, pr[1], pr[2]) /\ Lists(es, pr[2], pr[1])}

\* C17 (as claimed): the integer link_cross_modal_protos returns is the number
\* of (text, other) pairs the call newly linked, and it accounts for every
\* identifier the call inserted: two per new link, one in each link set.
C17_CountIsNewLinks ==
    [][last'.op = "link_cross_modal_protos"
         => /\ last'.count = Cardinality(LinkedPairs(entries') \ LinkedPairs(entries))
            /\ LinkSetSizes(entries') - LinkSetSizes(entries) = 2 * last'.count]_vars

\* C18 (as claimed): find_cross_modal_links(a) returns exactly the records whose
\* identifier is in a's link set or whose link set contains a's identifier,
\* and b is returned for a iff a is returned for b.
C18_LinksSymmetricAndComplete ==
    [][last'.op = "find_cross_modal_links"
         => LET a == last'.idx + 1
            IN  /\ SeqRange(last'.result)
                     = {b - 1 : b \in {b \in 1..Len(entries) :
                                          Lists(entries, a, b) \/ Lists(entries, b, a)}}
                /\ \A b \in 1..Len(entries) :
                      (b - 1 \in SeqRange(last'.result))
                        <=> (a - 1 \in SeqRange(find_cross_modal_links(entries, b - 1)))]_vars

IndexInvariant(es, sidx, fidx, wc) ==
    /\ \A off \in 0..(Len(es) - 1) :
          LET e == es[off + 1]
          IN  /\ DictCount(sidx, off) = 1
              /\ SeqCount(DictGet(sidx, GridPos(e.position)), off) = 1
              /\ DictCount(fidx, off) = 1
              /\ SeqCount(DictGet(fidx, _get_frequency_bin(e.fundamental_freq)), off) = 1
              /\ (e.wavecube_coords # NoCoords)
                    <=> (wc.present /\ off \in DictOffsets(wc.map))
    /\ DictOffsets(sidx) \cup DictOffsets(fidx) \cup DictOffsets(wc.map)
          \subseteq 0..(Len(es) - 1)

\* C20 (as claimed): a load of a blob without a newer optional field succeeds
\* and reconstructs it: a missing frequency index equals the one incremental
\* adds produced, a missing coordinate-hash index is rebuilt from the records'
\* coordinates, missing configuration takes the defaults, and the index
\* invariant holds afterwards.
C20_LoadRebuildsMissingFields ==
    [][(last'.op = "load" /\ blob.present)
         => /\ last'.outcome = "ok"
            /\ "frequency_index" \in last'.absent_keys
                  => frequency_index' = blob.saved_store[3]
            /\ "collapse_config" \in last'.absent_keys
                  => collapse_config' = DefaultCollapseConfig
            /\ IndexInvariant(entries', spatial_index', frequency_index', wavecube_index')
      ]_vars

\* C21: a load of a file in which a required key (the dimensions, the records,
\* the spatial index) is missing or corrupt ends in an error naming that key,
\* and never completes with zeroed or otherwise damaged content in the store
C21_DamagedLoadRaisesNamingKey ==
    [][last'.op = "load_damaged"
         => /\ last'.outcome = "raised"
            /\ last'.error = last'.key
            /\ entries' # ZeroedEntries(blob.entries) \/ blob.entries = <<>>
            /\ spatial_index' # DanglingSpatialIndex(blob.entries)]_vars

\* C22: when the coordinate derivation fails while a record is being created
\* (and the caller supplied no coordinate), the add still completes: the
\* record is appended with no coordinate, it is listed in the spatial and the
\* frequency index, and no error reaches the caller
C22_DerivationFailureStillCreates ==
    [][(/\ Appended(last')
        /\ last'.coords = NoCoords
        /\ extract_triplanar_coordinates(last'.spectrum, last'.modality, last'.octave)
              = NoCoords)
         => /\ last'.outcome = "created"
            /\ Len(entries') = Len(entries) + 1
            /\ last'.idx = Len(entries)
            /\ entries'[Len(entries')].wavecube_coords = NoCoords
            /\ entries'[Len(entries')].proto_identity = Fp(last'.proto)
            /\ DictCount(spatial_index', last'.idx) = 1
            /\ last'.idx \in {DictGet(spatial_index', GridPos(entries'[Len(entries')].position))[n] :
                                n \in 1..Len(DictGet(spatial_index',
                                                     GridPos(entries'[Len(entries')].position)))}
            /\ DictCount(frequency_index', last'.idx) = 1
            /\ wavecube_index' = wavecube_index]_vars

\* a record created by add_or_strengthen_proto after a failed derivation sits
\* in the store without a coordinate, after an earlier record
C22_Witness ==
    /\ last.op = "add_or_strengthen_proto"
    /\ last.outcome = "created"
    /\ last.coords = NoCoords
    /\ extract_triplanar_coordinates(last.spectrum, last.modality, last.octave) = NoCoords
    /\ last.idx = Len(entries) - 1
    /\ last.idx > 0
    /\ entries[last.idx + 1].wavecube_coords = NoCoords

\* C23: after any sequence of INSERT, UPDATE and DELETE statements (raising
\* ones included) both key indexes equal what _rebuild_indexes computes from
\* the current rows, so a statement filtered by  id = x  or  entry_index = n
\* reaches exactly the rows a full scan with that condition finds
C23_KeyIndexesMatchRows ==
    /\ db.by_entry_index = _rebuild_indexes(db.rows).by_entry_index
    /\ db.by_id = _rebuild_indexes(db.rows).by_id
    /\ \A c \in {"entry_index", "id"} : \A v \in ColumnValues(c) :
          _iter_filtered_rows(db, Where(c, v)) = ScanRows(db.rows, Where(c, v))

\* a mutating statement returned normally in this step
MutatingStatementReturned ==
    /\ db'.last.op \in {"insert", "update", "delete"}
    /\ db'.last.outcome = "ok"
    /\ db'.statements # db.statements \/ db.pc = "replace"

\* C24: GenesisDB persistence is atomic: after every successful mutating
\* statement the file at db_path holds exactly the current rows and no .tmp
\* file remains; the db file is only ever replaced whole from the .tmp file,
\* so at every step of a write it holds the complete previous rows or the
\* complete new rows
C24_PersistenceAtomic ==
    /\ [][MutatingStatementReturned
            => FileRows(db'.file) = db'.rows /\ ~db'.tmp.exists]_vars
    /\ [][db'.file # db.file
            => /\ db.tmp.exists /\ db.tmp.complete
               /\ db'.file = db.tmp
               /\ ~db'.tmp.exists]_vars
    /\ [](db.pc # "idle"
            => \/ db.file = db.prev_file
               \/ db.file.complete /\ db.file.rows = db.rows)

\* the record at offset off is at least as similar to the observation of call
\* l as every same-octave record that reaches the threshold (cosine path of
\* add_or_strengthen_proto)
BestRecord(es, l, off) ==
    \A i \in 1..Len(es) :
        (/\ es[i].octave = l.octave
         /\ SimCmp(compute_proto_similarity(Fp(l.proto), es[i].proto_identity),
                   SimConst(l.thr[1], l.thr[2])) >= 0)
          => SimCmp(compute_proto_similarity(Fp(l.proto), es[off + 1].proto_identity),
                    compute_proto_similarity(Fp(l.proto), es[i].proto_identity)) >= 0

\* the same for VoxelCloud.add, over the same-octave frequency candidates
BestCandidate(es, fidx, config, l, off) ==
    LET fundamental == extract_fundamental(l.spectrum)
        matches == find_similar_by_frequency(es, fidx, config, fundamental,
                                             extract_harmonics(l.spectrum, fundamental))
    IN  \A n \in 1..Len(matches) :
            (/\ es[matches[n] + 1].octave = l.octave
             /\ check_similarity_for_collapse(l.proto, es[matches[n] + 1],
                                              config.cosine_threshold))
              => SimCmp(compute_cosine_similarity(Fp(l.proto), es[off + 1].proto_identity),
                        compute_cosine_similarity(Fp(l.proto),
                                                  es[matches[n] + 1].proto_identity)) >= 0

\* C25: when several candidates have similarity at or above the threshold, the
\* observation is merged into the one with the highest similarity, whatever
\* the order the candidates were inserted in; for VoxelCloud.add and for the
\* cosine path of add_or_strengthen_proto
C25_MergesIntoMostSimilar ==
    [][/\ (last'.op = "add_or_strengthen_proto" /\ last'.coords = NoCoords
              /\ last'.outcome = "merged")
            => BestRecord(entries, last', last'.idx)
       /\ (last'.op = "add" /\ last'.outcome = "merged")
            => BestCandidate(entries, frequency_index, collapse_config, last', last'.idx)
      ]_vars

\* find_nearest_proto over every record, with no coordinate-hash index
ExhaustiveNearest(es, octave, coords, spatial_tolerance) ==
    find_nearest_proto(es, [present |-> FALSE, map |-> EmptyDict], <<1, 0>>, octave,
                       <<9, 10>>, coords, spatial_tolerance)

\* C26: the coordinate-hash acceleration is a pure optimisation: in every
\* store built by the add paths, for every query coordinate, octave and
\* tolerance, find_nearest_proto over the buckets within
\* ceil(tolerance / bucket_size) of the query bucket returns the record (or
\* the absence of a match) that the exhaustive scan over the same-octave
\* records with a coordinate returns
C26_HashedScanEqualsExhaustive ==
    \A coords \in SpatialCoords, octave \in Octaves, spatial_tolerance \in SpatialTolerances :
        find_nearest_proto(entries, wavecube_index, <<1, 0>>, octave, <<9, 10>>,
                           coords, spatial_tolerance)
          = ExhaustiveNearest(entries, octave, coords, spatial_tolerance)

\* squared distance from coords to the nearest record of the octave that has
\* a coordinate, NoMatch when there is none
NearestDistance(es, octave, coords) ==
    LET with == {i \in 1..Len(es) : es[i].octave = octave /\ es[i].wavecube_coords # NoCoords}
    IN  IF with = {} THEN NoMatch
        ELSE LET i == CHOOSE i \in with : \A j \in with :
                          compute_spatial_distance(coords, es[i].wavecube_coords)
                            <= compute_spatial_distance(coords, es[j].wavecube_coords)
             IN  compute_spatial_distance(coords, es[i].wavecube_coords)

\* C27: when a coordinate is supplied to add_or_strengthen_proto, the nearest
\* same-octave record is accepted as a match exactly when its distance is
\* below the adaptive tolerance clamp(base * (1 + 0.15 * |octave|), 0.5, 4.0)
\* of the call's octave
C27_AcceptedWithinAdaptiveTolerance ==
    [][(last'.op = "add_or_strengthen_proto" /\ last'.coords # NoCoords)
         => LET distance == NearestDistance(entries, last'.octave, last'.coords)
                tolerance == _adaptive_spatial_tolerance(last'.octave)
            IN  /\ AdaptiveMinTolerance <= tolerance /\ tolerance <= AdaptiveMaxTolerance
                /\ (last'.outcome = "merged")
                     <=> (distance # NoMatch /\ distance * 10000 < tolerance * tolerance)
      ]_vars

\* a same-octave record without coordinate whose similarity to the observation
\* of call l reaches the call's threshold
CoordinatelessReaches(es, l) ==
    \E i \in 1..Len(es) :
        /\ es[i].octave = l.octave
        /\ es[i].wavecube_coords = NoCoords
        /\ SimCmp(compute_proto_similarity(Fp(l.proto), es[i].proto_identity),
                  SimConst(l.thr[1], l.thr[2])) >= 0

\* C28 (as claimed): a record stored without a coordinate is matched by the
\* octave and cosine search: a later add_or_strengthen_proto of a fingerprint
\* at the same octave whose similarity to it meets the threshold merges
\* instead of creating a second record, whether or not the later call
\* supplies a coordinate.
C28_CoordinatelessRecordAlwaysMatched ==
    [][(last'.op = "add_or_strengthen_proto" /\ CoordinatelessReaches(entries, last'))
         => last'.outcome = "merged" /\ Len(entries') = Len(entries)]_vars

\* C28 (amended): the later call merges instead of creating a second record
\* when it supplies no coordinate; when it supplies one, the search is by
\* distance among the records that have a coordinate, and the record without
\* one is never the match.
C28_CoordinatelessRecordMatchedByCosineCalls ==
    [][/\ (last'.op = "add_or_strengthen_proto" /\ last'.coords = NoCoords
              /\ CoordinatelessReaches(entries, last'))
            => /\ last'.outcome = "merged"
               /\ Len(entries') = Len(entries)
               /\ entries[last'.idx + 1].octave = last'.octave
               /\ entries'[last'.idx + 1].resonance_strength
                     = entries[last'.idx + 1].resonance_strength + 1
       /\ (last'.op = "add_or_strengthen_proto" /\ last'.coords # NoCoords
              /\ last'.outcome = "merged")
            => entries[last'.idx + 1].wavecube_coords # NoCoords
      ]_vars

\* a call without coordinate has just merged into a record that has none,
\* in a store that also holds a record with a coordinate
C28_Witness ==
    /\ last.op = "add_or_strengthen_proto"
    /\ last.coords = NoCoords
    /\ last.outcome = "merged"
    /\ entries[last.idx + 1].wavecube_coords = NoCoords
    /\ entries[last.idx + 1].resonance_strength = 2
    /\ \E i \in 1..Len(entries) : entries[i].wavecube_coords # NoCoords

\* e2 is the record e1, whatever was merged into it or linked to it since
SameRecord(e1, e2) ==
    /\ e1.id = e2.id
    /\ e1.frequency = e2.frequency
    /\ e1.octave = e2.octave
    /\ e1.modality = e2.modality
    /\ e1.position = e2.position
    /\ e1.fundamental_freq = e2.fundamental_freq
    /\ e1.wavecube_coords = e2.wavecube_coords

\* no record is removed or moved in this step
RecordsStay ==
    /\ Len(entries') >= Len(entries)
    /\ \A i \in 1..Len(entries) : SameRecord(entries[i], entries'[i])

\* an add call grows the store by one record (created) or by none (merged
\* into the existing record at the returned offset)
GrowsByOneOrNone ==
    last'.op \in AddOps
      => /\ last'.outcome \in {"created", "raised"}
              => Len(entries') = Len(entries) + 1 /\ last'.idx = Len(entries)
         /\ last'.outcome = "merged"
              => /\ Len(entries') = Len(entries)
                 /\ last'.idx \in 0..(Len(entries) - 1)
                 /\ entries'[last'.idx + 1].resonance_strength
                       = entries[last'.idx + 1].resonance_strength + 1
                 /\ \A i \in 1..Len(entries) : i # last'.idx + 1 => entries'[i] = entries[i]

RankedBefore(es, query_proto, similarity_metric, a, b) ==
    \/ ScoreGreater(es, query_proto, similarity_metric, a + 1, b + 1)
    \/ /\ ~ScoreGreater(es, query_proto, similarity_metric, b + 1, a + 1)
       /\ a < b

\* C30: in query_by_proto_similarity, for both metrics, records of equal score
\* are returned in insertion order (lower offset first), and when the store
\* holds more than k records the k returned are the first k of that total
\* order: every returned record precedes the ones after it and every record
\* left out.
C30_TiesByInsertionFirstK ==
    [][last'.op = "query_by_proto_similarity"
         => LET r == last'.result
                q == last'.proto
                m == last'.similarity_metric
                returned == {r[n] : n \in 1..Len(r)}
            IN  /\ Len(r) = Min(last'.max_results, Len(entries))
                /\ returned \subseteq 0..(Len(entries) - 1)
                /\ \A n1 \in 1..Len(r), n2 \in 1..Len(r) :
                      n1 < n2 => RankedBefore(entries, q, m, r[n1], r[n2])
                /\ \A a \in returned, b \in (0..(Len(entries) - 1)) \ returned :
                      RankedBefore(entries, q, m, a, b)]_vars

\* two records of equal score are stored and one result is asked for: the
\* record stored first is the one returned
C30_Witness ==
    /\ last.op = "query_by_proto_similarity" /\ last.max_results = 1
    /\ Len(entries) = 2 /\ last.result = <<0>>
    /\ ~ScoreGreater(entries, last.proto, last.similarity_metric, 1, 2)
    /\ ~ScoreGreater(entries, last.proto, last.similarity_metric, 2, 1)

\* the distance bucket of the specification: 0 below 10, 1 below 100, 2 below
\* 200, 3 below 400, 4 otherwise, on the squared distance
LodBucket(distsq) ==
    IF distsq < 100 THEN 0
    ELSE IF distsq < 10000 THEN 1
    ELSE IF distsq < 40000 THEN 2
    ELSE IF distsq < 160000 THEN 3
    ELSE 4

\* C31: query_by_raycast returns the visible records in ascending order of
\* distance from the camera, at most k of them, each paired with its LOD
\* bucket (0 below 10, 1 below 100, 2 below 200, 3 below 400, 4 otherwise).
C31_RaycastPairsRecordWithLod ==
    [][last'.op = "query_by_raycast"
         => LET r == last'.result
                cam == last'.camera
                dist(off) == PosDistSq(entries[off + 1].position, cam.position)
            IN  /\ Len(r) <= last'.max_results
                /\ \A n \in 1..(Len(r) - 1) : dist(r[n]) <= dist(r[n + 1])
                /\ Len(last'.lods) = Len(r)
                /\ \A n \in 1..Len(r) : last'.lods[n] = LodBucket(dist(r[n]))]_vars

TrackingOp == "add_with_temporal_tracking"

\* C32: link fields and the linker are isolated from the rest of the store:
\* link_cross_modal_protos changes nothing except cross_modal_links (record
\* count, every other field of every record and every index are unchanged),
\* and no add, merge, tracking add or query changes any record's
\* cross_modal_links.
C32_LinkFieldsIsolated ==
    [][/\ last'.op = "link_cross_modal_protos"
            => /\ Len(entries') = Len(entries)
               /\ \A i \in 1..Len(entries) :
                     [entries'[i] EXCEPT !.cross_modal_links = entries[i].cross_modal_links]
                       = entries[i]
               /\ UNCHANGED <<spatial_index, frequency_index, wavecube_index>>
       /\ last'.op \in AddOps \cup {TrackingOp} \cup QueryOps
            => /\ Len(entries') >= Len(entries)
               /\ \A i \in 1..Len(entries) :
                     entries'[i].cross_modal_links = entries[i].cross_modal_links]_vars

\* an add has merged into a record that the linker had given a link
C32_Witness ==
    /\ last.op \in AddOps \cup {TrackingOp}
    /\ last.outcome = "merged"
    /\ entries[last.idx + 1].cross_modal_links # <<>>

\* sum of resonance over the records
RECURSIVE TotalResonance(_)
TotalResonance(es) ==
    IF es = <<>> THEN 0 ELSE Head(es).resonance_strength + TotalResonance(Tail(es))

\* C33: observations are conserved: on an initially empty store, after n calls
\* of add / add_or_strengthen_proto that returned normally the sum of
\* resonance over all records is n and there are at most n records.  Both
\* counts start at 0, so this is: a call that returns normally adds exactly 1
\* to the sum and at most one record, and a call that does not adds nothing.
C33_ObservationsConserved ==
    [][last'.op \in AddOps
         => IF last'.outcome # "raised"
            THEN /\ TotalResonance(entries') = TotalResonance(entries) + 1
                 /\ Len(entries') \in {Len(entries), Len(entries) + 1}
            ELSE /\ TotalResonance(entries') = TotalResonance(entries)
                 /\ Len(entries') = Len(entries)]_vars

\* C34: add_with_temporal_tracking writes the tracking fields on the record
\* that absorbed the observation (the created record when the add created
\* one, the matched record when it merged) and modifies no record that did
\* not receive the observation.
C34_TrackingWritesAbsorbingRecord ==
    [][last'.op = TrackingOp
         => LET absorbed == last'.idx + 1
            IN  /\ entries'[absorbed].current_state # NoState
                /\ Len(entries'[absorbed].temporal_history)
                     = IF last'.outcome = "created" THEN 1
                       ELSE Len(entries[absorbed].temporal_history) + 1
                /\ entries'[absorbed].temporal_history[
                       Len(entries'[absorbed].temporal_history)][2] = last'.proto
                /\ \A i \in 1..Len(entries) :
                      i # absorbed => entries'[i] = entries[i]]_vars

\* C35: record identifiers are unique: after any sequence of adds that mixes
\* caller-chosen ids with the internal fallback (the store length at
\* creation) no two records carry the same identifier, and every identifier
\* in a link set denotes exactly one record.
C35_IdentifiersUnique ==
    /\ \A i \in 1..Len(entries), j \in 1..Len(entries) :
          entries[i].id = entries[j].id => i = j
    /\ \A i \in 1..Len(entries) :
          \A n \in 1..Len(entries[i].cross_modal_links) :
             Cardinality({j \in 1..Len(entries) :
                             entries[j].id = entries[i].cross_modal_links[n]}) = 1

\* no identifier occurs twice in the sequence
NoRepeats(sq) == \A m \in 1..Len(sq), n \in 1..Len(sq) : sq[m] = sq[n] => m = n

\* C36: link_cross_modal_protos is idempotent: called twice in a row with the
\* same tolerance, the second call returns 0 and leaves every link set (and
\* with it every record) unchanged; in every reachable state no link set
\* contains the same identifier twice.
C36_LinkerIdempotent ==
    /\ [][(/\ last.op = "link_cross_modal_protos"
           /\ last'.op = "link_cross_modal_protos"
           /\ last'.phase_coherence_threshold = last.phase_coherence_threshold)
            => last'.count = 0 /\ entries' = entries]_vars
    /\ [](\A i \in 1..Len(entries) : NoRepeats(entries[i].cross_modal_links))

\* the linker has run on a store it had linked before: it returned 0 and the
\* links are there
C36_Witness ==
    /\ last.op = "link_cross_modal_protos" /\ last.count = 0
    /\ \E i \in 1..Len(entries) : entries[i].cross_modal_links # <<>>

\* C37: keys are unique in GenesisDB: after any sequence of INSERT, UPDATE and
\* DELETE statements, including UPDATEs that assign id or entry_index on
\* several rows at once, no two rows share an entry_index and no two rows
\* share an id (NULL is no key).
C37_KeysUnique ==
    \A m \in 1..Len(db.rows), n \in 1..Len(db.rows) :
        m # n => /\ \/ db.rows[m].entry_index = NullIndex
                    \/ db.rows[m].entry_index # db.rows[n].entry_index
                 /\ \/ db.rows[m].id = NullId
                    \/ db.rows[m].id # db.rows[n].id

\* C38: a statement that raises (duplicate key on INSERT or UPDATE among
\* them) leaves the store unchanged: the in-memory rows, the key indexes and
\* the persisted file are the same as before the statement, also when the
\* UPDATE matched several rows.
C38_RaisingStatementChangesNothing ==
    [][(db'.statements # db.statements /\ db'.last.outcome = "raised")
         => /\ db'.rows = db.rows
            /\ db'.by_entry_index = db.by_entry_index
            /\ db'.by_id = db.by_id
            /\ db'.file = db.file
            /\ db'.tmp = db.tmp]_vars

\* C39: LogStore._interprocess_lock never waits forever and never leaks the
\* lock: while another holder keeps the lock it makes at most retries + 1
\* non-blocking attempts and then raises TimeoutError with the lock file
\* closed; once acquired, the lock is released and the file closed on every
\* exit of the guarded block, also when the block raises.
C39_LockBoundedAndReleased ==
    /\ [](log_lock.tries <= LockRetries + 1)
    /\ []((log_lock.pc = "idle" /\ log_lock.outcome = "TimeoutError")
            => log_lock.tries = LockRetries + 1)
    /\ [](log_lock.pc = "idle"
            => log_lock.lock_file = "closed" /\ log_lock.holder # "self")
    /\ [](log_lock.holder = "self" => log_lock.pc = "holding")
    /\ [][(log_lock.pc = "holding" /\ log_lock'.pc # "holding")
            => /\ log_lock'.holder = "none"
               /\ log_lock'.lock_file = "closed"
               /\ log_lock'.outcome \in {"ok", "raised"}]_vars
    /\ (log_lock.pc = "trying") ~> (log_lock.pc # "trying")

\* the other process held the lock through all eleven attempts of a use that
\* followed an earlier use
C39_Witness ==
    /\ log_lock.pc = "idle" /\ log_lock.outcome = "TimeoutError"
    /\ log_lock.tries = LockRetries + 1 /\ log_lock.uses = 2
    /\ log_lock.lock_file = "closed" /\ log_lock.holder = "other"

====
